---- MODULE Spec2Model ----
(***************************************************************************)
(* Model of the prompt-technique execution engine of FrameworkPE:          *)
(*   - the response extractor (plugins/prompts/base_prompt.py and          *)
(*     utils/security_extractor.py),                                       *)
(*   - the convergence scorer,                                             *)
(*   - the four prompt techniques (progressive hint, self hint,            *)
(*     progressive rectification, hypothesis testing),                     *)
(*   - the incident runner (core/framework.py).                            *)
(*                                                                         *)
(* Strings are sequences of words: the words of the Python string split at *)
(* single spaces, so that "" stands for the gap left between two adjacent  *)
(* spaces.  A line break is the token "\n"; it touches its neighbours      *)
(* without spaces ("CAT1\nExplanation:").                                  *)
(***************************************************************************)
EXTENDS Integers, Sequences, FiniteSets, TLC

VARIABLES
    \* ---- extractor harness ----
    texto,        \* the response text handed to extract_security_incidents
    extracted,    \* its outcome, NoResult before the call
    \* ---- technique execution (one incident) ----
    tech,         \* "php" | "shp" | "prp" | "htp"
    ceiling,      \* max_hints / max_iter
    limite,       \* limite_rouge / limite_qualidade, in percent
    rougeLib,     \* TRUE when the rouge_score library can be imported
    pc,           \* position in execute()
    loc,          \* the local variables of execute()
    resultados,   \* the list execute() builds
    calls,        \* number of send_prompt calls made for the incident
    sent,         \* the prompt of the last send_prompt call
    backend,      \* "up" | "down": whether the model behind send_prompt works
    incidentNo,   \* which incident of the batch this execute() call is for
    \* ---- incident runner ----
    rows,         \* the rows of the batch
    outcomes,     \* what prompt_instance.execute does for each row
    nextRow,      \* position of the runner in the batch
    results,      \* the aggregated result list
    rpc,          \* "running" | "done" | "aborted"
    \* ---- calls of the pure helpers ----
    capture,      \* the category capture handed to _extract_cat
    canon,        \* what _extract_cat returns for it
    scoreIn,      \* the arguments of calculate_rouge_score
    score,        \* its result, in percent
    fpc,          \* "start" | "done"
    \* ---- command line ----
    args,         \* the parsed command-line arguments
    params,       \* default_params of the technique, then the merged kwargs
    cpc,          \* "main" | "done"
    \* ---- plugin manager ----
    prompt_plugins,   \* registered prompt plugins: name -> class
    model_plugins,    \* registered model plugins: name -> class
    listed,           \* what the last list_available_prompts returned
    created,          \* what the last create_prompt_instance returned
    registrations,    \* register_prompt_plugin calls made after construction
    \* ---- metrics sink ----
    file,             \* the metrics file of one model and mode
    interactions,     \* TokenMetrics.interactions
    wpc,              \* position of each log_interaction call
    wdata,            \* the list `data` of each _save_to_file call
    \* ---- model adapter ----
    adapter,          \* "APIModel" | "LocalModel" | "HuggingfaceModel"
    rate_limit,       \* self.rate_limit, in tenths of a second
    call_kwargs,      \* the keyword arguments of the send_prompt call
    events,           \* what the call has done so far: sleeps and requests
    mpc               \* position of the adapter in send_prompt

extractVars == <<texto, extracted>>
techVars    == <<tech, ceiling, limite, rougeLib, pc, loc, resultados, calls, sent,
                 backend, incidentNo>>
runnerVars  == <<rows, outcomes, nextRow, results, rpc>>
funVars     == <<capture, canon, scoreIn, score, fpc>>
cliVars     == <<args, params, cpc>>
plugVars    == <<prompt_plugins, model_plugins, listed, created, registrations>>
metVars     == <<file, interactions, wpc, wdata>>
modelVars   == <<adapter, rate_limit, call_kwargs, events, mpc>>
vars        == <<texto, extracted, tech, ceiling, limite, rougeLib, pc, loc,
                 resultados, calls, sent, backend, incidentNo, rows, outcomes, nextRow, results, rpc,
                 capture, canon, scoreIn, score, fpc, args, params, cpc,
                 prompt_plugins, model_plugins, listed, created, registrations,
                 file, interactions, wpc, wdata,
                 adapter, rate_limit, call_kwargs, events, mpc>>

(***************************************************************************)
(* Generic sequence helpers                                                *)
(***************************************************************************)
Last(s) == s[Len(s)]

Front(s) == SubSeq(s, 1, Len(s) - 1)

RECURSIVE Flatten(_)
Flatten(ss) == IF ss = <<>> THEN <<>> ELSE Head(ss) \o Flatten(Tail(ss))

\* Smallest index i >= from with s[i] \in S; Len(s) + 1 when there is none.
RECURSIVE FirstIn(_, _, _)
FirstIn(s, from, S) ==
    IF from > Len(s) THEN Len(s) + 1
    ELSE IF s[from] \in S THEN from
    ELSE FirstIn(s, from + 1, S)

\* Smallest index i >= from with s[i] \notin S; Len(s) + 1 when there is none.
RECURSIVE FirstNotIn(_, _, _)
FirstNotIn(s, from, S) ==
    IF from > Len(s) THEN Len(s) + 1
    ELSE IF s[from] \notin S THEN from
    ELSE FirstNotIn(s, from + 1, S)

SeqsUpTo(S, n) == UNION { [1..k -> S] : k \in 0..n }

(***************************************************************************)
(* Python str helpers on word sequences                                    *)
(***************************************************************************)
NL == "\n"

\* str.strip(): leading and trailing white space goes; in a word sequence
\* that is the leading and trailing "" words and line breaks.
IsBlank(w) == w = "" \/ w = NL

RECURSIVE LStrip(_)
LStrip(s) == IF s # <<>> /\ IsBlank(Head(s)) THEN LStrip(Tail(s)) ELSE s

RECURSIVE RStrip(_)
RStrip(s) == IF s # <<>> /\ IsBlank(Last(s)) THEN RStrip(Front(s)) ELSE s

Strip(s) == RStrip(LStrip(s))

\* str.upper() / str.lower() on the words of the model's vocabulary; a word
\* outside of the tables has no letters that change the outcome of a lookup.
UpperTable ==
    [w \in {"CAT0", "cat0"} |-> "CAT0"] @@
    [w \in {"CAT1", "cat1"} |-> "CAT1"] @@
    [w \in {"CAT2", "cat2"} |-> "CAT2"] @@
    [w \in {"CAT3", "cat3"} |-> "CAT3"] @@
    [w \in {"CAT4", "cat4"} |-> "CAT4"] @@
    [w \in {"CAT5", "cat5"} |-> "CAT5"] @@
    [w \in {"CAT6", "cat6"} |-> "CAT6"] @@
    [w \in {"CAT7", "cat7"} |-> "CAT7"] @@
    [w \in {"CAT8", "cat8"} |-> "CAT8"] @@
    [w \in {"CAT9", "cat9"} |-> "CAT9"] @@
    [w \in {"CAT10", "cat10"} |-> "CAT10"] @@
    [w \in {"CAT11", "cat11"} |-> "CAT11"] @@
    [w \in {"CAT12", "cat12"} |-> "CAT12"] @@
    [w \in {"CAT13", "cat13"} |-> "CAT13"] @@
    [w \in {"UNKNOWN", "Unknown", "unknown"} |-> "UNKNOWN"] @@
    [w \in {"ERROR", "error"} |-> "ERROR"] @@
    [w \in {"ALL", "all"} |-> "ALL"] @@
    [w \in {"category", "Category"} |-> "CATEGORY"] @@
    [w \in {"likely", "Likely"} |-> "LIKELY"]

Upper(w) == IF w \in DOMAIN UpperTable THEN UpperTable[w] ELSE w

LowerTable ==
    [w \in {"CAT0", "cat0"} |-> "cat0"] @@
    [w \in {"CAT1", "cat1"} |-> "cat1"] @@
    [w \in {"CAT2", "cat2"} |-> "cat2"] @@
    [w \in {"CAT3", "cat3"} |-> "cat3"] @@
    [w \in {"CAT4", "cat4"} |-> "cat4"] @@
    [w \in {"CAT5", "cat5"} |-> "cat5"] @@
    [w \in {"CAT6", "cat6"} |-> "cat6"] @@
    [w \in {"CAT7", "cat7"} |-> "cat7"] @@
    [w \in {"CAT8", "cat8"} |-> "cat8"] @@
    [w \in {"CAT9", "cat9"} |-> "cat9"] @@
    [w \in {"CAT10", "cat10"} |-> "cat10"] @@
    [w \in {"CAT11", "cat11"} |-> "cat11"] @@
    [w \in {"CAT12", "cat12"} |-> "cat12"] @@
    [w \in {"CAT13", "cat13"} |-> "cat13"] @@
    [w \in {"UNKNOWN", "Unknown", "unknown"} |-> "unknown"] @@
    [w \in {"ERROR", "error"} |-> "error"] @@
    [w \in {"ALL", "all"} |-> "all"] @@
    [w \in {"category", "Category"} |-> "category"] @@
    [w \in {"likely", "Likely"} |-> "likely"]

Lower(w) == IF w \in DOMAIN LowerTable THEN LowerTable[w] ELSE w

LowerStr(s) == [i \in 1..Len(s) |-> Lower(s[i])]

(***************************************************************************)
(* Response texts.  A text is what json.loads makes of it (JNotJson when   *)
(* it raises JSONDecodeError) together with its raw tokens, on which the   *)
(* regular expression runs.                                                *)
(***************************************************************************)
JNotJson  == [type |-> "invalid"]
JNumber   == [type |-> "number"]
JNull     == [type |-> "null"]
JBool     == [type |-> "bool"]
JStr(s)   == [type |-> "string", s |-> s]
JArr(xs)  == [type |-> "array", items |-> xs]
\* members: a sequence of [k |-> key, v |-> value], in the order of the text
JObj(ms)  == [type |-> "object", members |-> ms]

Member(k, v) == [k |-> k, v |-> v]

GlueFirst(prefix, s) == <<prefix \o Head(s)>> \o Tail(s)

GlueLast(s, suffix) == Front(s) \o <<Last(s) \o suffix>>

\* The raw text of a JSON value, as tokens.
RenderScalar(v) ==
    CASE v.type = "string" ->
           IF v.s = <<>> THEN <<"\"\"">>
           ELSE GlueLast(GlueFirst("\"", v.s), "\"")
      [] v.type = "number" -> <<"5">>
      [] v.type = "null"   -> <<"null">>
      [] v.type = "bool"   -> <<"true">>
      [] OTHER             -> <<"[]">>

RECURSIVE RenderItems(_)
RenderItems(xs) ==
    IF xs = <<>> THEN <<>>
    ELSE IF Len(xs) = 1 THEN RenderScalar(xs[1])
    ELSE GlueLast(RenderScalar(xs[1]), ",") \o RenderItems(Tail(xs))

RECURSIVE RenderMembers(_)
RenderMembers(ms) ==
    IF ms = <<>> THEN <<>>
    ELSE LET one == <<"\"" \o ms[1].k \o "\":">> \o RenderScalar(ms[1].v)
         IN  IF Len(ms) = 1 THEN one
             ELSE GlueLast(one, ",") \o RenderMembers(Tail(ms))

Render(v) ==
    CASE v.type = "array" ->
           IF v.items = <<>> THEN <<"[]">>
           ELSE GlueLast(GlueFirst("[", RenderItems(v.items)), "]")
      [] v.type = "object" ->
           IF v.members = <<>> THEN <<"{}">>
           ELSE GlueLast(GlueFirst("{", RenderMembers(v.members)), "}")
      [] OTHER -> RenderScalar(v)

PlainText(toks) == [json |-> JNotJson, raw |-> toks]

JsonText(v) == [json |-> v, raw |-> Render(v)]

(***************************************************************************)
(* extract_security_incidents                                              *)
(***************************************************************************)
CatKeys  == {"Category:", "**Category:**"}
ExplKeys == {"Explanation:", "**Explanation:**"}

CatCodes == {"CAT1", "CAT2", "CAT3", "CAT4", "CAT5", "CAT6",
             "CAT7", "CAT8", "CAT9", "CAT10", "CAT11", "CAT12"}

\* Words of the vocabulary that hold a CAT code between non-word characters.
PunctuatedCat == [w \in {"(cat5)"} |-> "CAT5"] @@ [w \in {"CAT1."} |-> "CAT1"]

\* The match of \bCAT([1-9]|1[0-2])\b in the upper-cased word, "" if none.
CatCodeIn(w) ==
    IF Upper(w) \in CatCodes THEN Upper(w)
    ELSE IF w \in DOMAIN PunctuatedCat THEN PunctuatedCat[w]
    ELSE ""

\* extract_cat returning the word as it stands in the capture
extract_cat_asis(s) ==
    LET i == FirstNotIn([k \in 1..Len(s) |-> CatCodeIn(s[k])], 1, {""})
    IN  IF i <= Len(s) THEN <<s[i]>> ELSE s

\* _extract_cat: the first CAT1..CAT12 code found in the text, else the text.
extract_cat(s) ==
    LET i == FirstNotIn([k \in 1..Len(s) |-> CatCodeIn(s[k])], 1, {""})
    IN  IF i <= Len(s) THEN <<CatCodeIn(s[i])>> ELSE s

\* word.replace("*", "") for the words of the vocabulary that hold a "*"
StarTable ==
    [w \in {"*"} |-> ""] @@
    [w \in {"**Category:**"} |-> "Category:"] @@
    [w \in {"**Explanation:**"} |-> "Explanation:"]

Unstarred(w) == IF w \in DOMAIN StarTable THEN StarTable[w] ELSE w

\* .replace("*", "").replace("\n", ""): a "*" standing alone leaves an empty
\* word; a removed line break joins the words it stood between.
RECURSIVE RemoveMarks(_, _, _)
RemoveMarks(s, out, glue) ==
    IF s = <<>> THEN out
    ELSE IF Head(s) = NL THEN RemoveMarks(Tail(s), out, TRUE)
    ELSE LET w == Unstarred(Head(s))
         IN  IF glue /\ out # <<>>
             THEN RemoveMarks(Tail(s), GlueLast(out, w), FALSE)
             ELSE RemoveMarks(Tail(s), Append(out, w), FALSE)

CleanCapture(s) == Strip(RemoveMarks(s, <<>>, FALSE))

\* One match of the pattern at or after position from:
\*   (?:\*\*Category:\*\*|Category:)\s*(.*?)\s*
\*   (?:\*\*Explanation:\*\*|Explanation:|Explanation:)\s*(.*?)(?=\n|$)
\* under re.DOTALL.  g1, g2 are the two groups, stop the position after the
\* match; found is FALSE when the pattern matches nowhere from there on.
MatchFrom(toks, from) ==
    LET i == FirstIn(toks, from, CatKeys)
        j == FirstIn(toks, i + 1, ExplKeys)
        \* \s*(.*?)\s* : the group without the white space around it
        a == FirstNotIn(toks, i + 1, {NL})
        g1 == IF a >= j THEN <<>> ELSE RStrip(SubSeq(toks, a, j - 1))
        \* \s*(.*?)(?=\n|$)
        k == FirstNotIn(toks, j + 1, {NL})
        e == FirstIn(toks, k, {NL})
    IN  IF i > Len(toks) \/ j > Len(toks)
        THEN [found |-> FALSE, g1 |-> <<>>, g2 |-> <<>>, stop |-> Len(toks) + 1]
        ELSE [found |-> TRUE, g1 |-> g1, g2 |-> SubSeq(toks, k, e - 1), stop |-> e]

\* re.findall(padrao, texto, re.DOTALL)
RECURSIVE FindAll(_, _)
FindAll(toks, from) ==
    LET m == MatchFrom(toks, from)
    IN  IF ~m.found THEN <<>>
        ELSE <<[g1 |-> m.g1, g2 |-> m.g2]>> \o FindAll(toks, m.stop)

Returned(c, e) == [exc |-> "none", Category |-> c, Explanation |-> e]

Raised(x) == [exc |-> x, Category |-> <<>>, Explanation |-> <<>>]

\* Python's  key in dados  for what json.loads returned.
KeySubstrings ==
    [k \in {"Category"} |-> {"Category", "Category:", "**Category:**", "\"Category:"}] @@
    [k \in {"Explanation"} |-> {"Explanation", "Explanation:", "**Explanation:**"}]

PyIn(key, dados) ==
    CASE dados.type = "object" -> \E n \in 1..Len(dados.members) : dados.members[n].k = key
      [] dados.type = "array"  -> \E n \in 1..Len(dados.items) : dados.items[n] = JStr(<<key>>)
      [] dados.type = "string" -> \E n \in 1..Len(dados.s) : dados.s[n] \in KeySubstrings[key]
      [] OTHER -> FALSE

\* dict lookup: the last member with that key
RECURSIVE PyGet(_, _)
PyGet(ms, key) == IF Last(ms).k = key THEN Last(ms).v ELSE PyGet(Front(ms), key)

\* RegexPath taking matches[0] where the code takes matches[-1]
RegexPath_first(toks) ==
    LET matches == FindAll(toks, 1)
    IN  IF matches # <<>>
        THEN LET primeira_ocorrencia == Head(matches)
             IN  Returned(extract_cat(CleanCapture(primeira_ocorrencia.g1)),
                          CleanCapture(primeira_ocorrencia.g2))
        ELSE Returned(<<"unknown">>, <<"unknown">>)

RegexPath(toks) ==
    LET matches == FindAll(toks, 1)
    IN  IF matches # <<>>
        THEN LET ultima_ocorrencia == Last(matches)
             IN  Returned(extract_cat(CleanCapture(ultima_ocorrencia.g1)),
                          CleanCapture(ultima_ocorrencia.g2))
        ELSE Returned(<<"unknown">>, <<"unknown">>)

extract_security_incidents(t) ==
    LET dados == t.json
    IN  IF dados.type = "invalid" THEN RegexPath(t.raw)
        \* "Category" in dados, for an int, a float, a bool or None
        ELSE IF dados.type \in {"number", "null", "bool"} THEN Raised("TypeError")
        ELSE IF PyIn("Category", dados) /\ PyIn("Explanation", dados)
        THEN \* dados["Category"] on a str or a list
             IF dados.type # "object" THEN Raised("TypeError")
             ELSE LET c == PyGet(dados.members, "Category")
                      e == PyGet(dados.members, "Explanation")
                  IN  \* .strip() on a value that is no str
                      IF c.type # "string" \/ e.type # "string"
                      THEN Raised("AttributeError")
                      ELSE Returned(Strip(c.s), Strip(e.s))
        ELSE RegexPath(t.raw)


(***************************************************************************)
(* calculate_rouge_score, in percent                                       *)
(***************************************************************************)
\* The Porter stemmer of rouge_score, on the lower-cased vocabulary.
StemTable ==
    [w \in {"category"} |-> "categori"] @@
    [w \in {"likely"} |-> "like"]

Stem(w) == IF w \in DOMAIN StemTable THEN StemTable[w] ELSE w

\* Words that hold characters outside [a-z0-9]: what the tokenizer keeps.
AlnumTable ==
    [w \in {"(cat5)"} |-> "cat5"] @@
    [w \in {"cat1."} |-> "cat1"] @@
    [w \in {"category:"} |-> "category"] @@
    [w \in {"explanation:"} |-> "explanation"]

Alnum(w) == IF w \in DOMAIN AlnumTable THEN AlnumTable[w] ELSE w

\* rouge_score's tokenizer: lower case, non-alphanumerics to spaces, split,
\* stem.
RECURSIVE Tokenize(_)
Tokenize(s) ==
    IF s = <<>> THEN <<>>
    ELSE LET w == Alnum(Lower(Head(s)))
         IN  IF w = "" THEN Tokenize(Tail(s))
             ELSE <<Stem(w)>> \o Tokenize(Tail(s))

\* Length of the longest common subsequence.
RECURSIVE LCS(_, _)
LCS(a, b) ==
    IF a = <<>> \/ b = <<>> THEN 0
    ELSE IF Head(a) = Head(b) THEN 1 + LCS(Tail(a), Tail(b))
    ELSE LET x == LCS(Tail(a), b)
             y == LCS(a, Tail(b))
         IN  IF x >= y THEN x ELSE y

\* scores['rougeL'].fmeasure = 2pr/(p+r), p = lcs/len(prediction),
\* r = lcs/len(target); 0 when there is nothing in common.
RougeL(target, prediction) ==
    LET t == Tokenize(target)
        q == Tokenize(prediction)
        l == LCS(t, q)
    IN  IF l = 0 THEN 0 ELSE (200 * l) \div (Len(t) + Len(q))

\* calculate_rouge_score whose fallback compares the strings as they are
calculate_rouge_score_exact(lib, resposta_anterior, nova_resposta) ==
    IF lib THEN RougeL(resposta_anterior, nova_resposta)
    ELSE IF resposta_anterior = nova_resposta THEN 100 ELSE 0

calculate_rouge_score(lib, resposta_anterior, nova_resposta) ==
    IF lib THEN RougeL(resposta_anterior, nova_resposta)
    ELSE IF LowerStr(resposta_anterior) = LowerStr(nova_resposta) THEN 100 ELSE 0

(***************************************************************************)
(* The category keyword table (_get_subcategories)                         *)
(***************************************************************************)
palavras_chave ==
    [c \in {"CAT1"} |->
        <<"phishing", "brute force", "unauthorized access", "compromised password", "credential theft", "account compromise", "token", "oauth", "ssh", "suspicious login">>] @@
    [c \in {"CAT2"} |->
        <<"malware", "ransomware", "trojan", "virus", "spyware", "rootkit", "infection", "malicious code">>] @@
    [c \in {"CAT3"} |->
        <<"ddos", "dos", "denial of service", "flood", "syn flood", "udp flood", "botnet", "api outage", "site down">>] @@
    [c \in {"CAT4"} |->
        <<"data leak", "exposed data", "leaked credentials", "sensitive information", "data exfiltration", "unauthorized disclosure">>] @@
    [c \in {"CAT5"} |->
        <<"exploit", "vulnerability", "cve", "remote execution", "sql injection", "injection", "rce", "security flaw">>] @@
    [c \in {"CAT6"} |->
        <<"insider", "internal abuse", "employee", "internal leak", "sabotage", "intentional action", "staff">>] @@
    [c \in {"CAT7"} |->
        <<"social engineering", "phishing", "vishing", "fraud", "deception", "spoofing", "manipulation", "scam", "ceo fraud">>] @@
    [c \in {"CAT8"} |->
        <<"physical access", "equipment theft", "burglary", "unauthorized entry", "broken door", "physical breach">>] @@
    [c \in {"CAT9"} |->
        <<"modification", "defacement", "unauthorized change", "erased", "altered record", "tampering">>] @@
    [c \in {"CAT10"} |->
        <<"misuse", "resource abuse", "crypto mining", "compromised server", "malware hosting", "unauthorized use">>] @@
    [c \in {"CAT11"} |->
        <<"third party", "supplier", "partner", "vendor", "supply chain", "external breach", "saas issue">>] @@
    [c \in {"CAT12"} |->
        <<"intrusion attempt", "scan", "reconnaissance", "probing", "port scan", "blocked exploit", "failed attempt">>] @@
    [c \in {"UNKNOWN"} |->
        <<"unknown", "unspecified", "not categorized", "no category", "undefined", "other">>]

\* get_subcategories of a table that answers an unlisted category with the
\* keywords of UNKNOWN
get_subcategories_default(categoria) ==
    LET key == Strip(categoria)
    IN  IF Len(key) = 1 /\ Upper(key[1]) \in DOMAIN palavras_chave
        THEN palavras_chave[Upper(key[1])]
        ELSE palavras_chave["UNKNOWN"]

get_subcategories(categoria) ==
    LET key == Strip(categoria)
    IN  IF Len(key) = 1 /\ Upper(key[1]) \in DOMAIN palavras_chave
        THEN palavras_chave[Upper(key[1])]
        ELSE <<>>

(***************************************************************************)
(* The response texts the extractor is applied to                          *)
(***************************************************************************)
MaxPieces  == 4
MaxMembers == 2

Pieces ==
    { <<"Category:", "CAT1", "Explanation:", "e1">>,
      <<"**Category:**", "cat2", "likely", "**Explanation:**", "e2">>,
      <<"Category:", "Unknown", "Explanation:">>,
      <<"Category:", "CAT13">>,
      <<"Explanation:", "e3">>,
      <<NL>>,
      <<"*">>,
      <<"foo">> }

PlainTexts == { PlainText(Flatten(ps)) : ps \in SeqsUpTo(Pieces, MaxPieces) }

JsonStrings ==
    { JStr(<<"", "CAT2", "">>), JStr(<<"cat5", "likely">>), JStr(<<"e1">>), JStr(<<>>) }

JsonMembers ==
    { Member(k, v) : k \in {"Category", "Explanation", "category"},
                     v \in JsonStrings \cup {JNumber, JNull} }

JsonValues ==
    {JNumber, JNull, JBool}
    \cup { JStr(<<"foo">>), JStr(<<"Category:", "CAT1">>),
           JStr(<<"Category:", "CAT1", "Explanation:", "e1">>) }
    \cup { JArr(<<>>), JArr(<<JStr(<<"CAT1">>)>>),
           JArr(<<JStr(<<"Category">>), JStr(<<"Explanation">>)>>) }
    \cup { JObj(ms) : ms \in SeqsUpTo(JsonMembers, MaxMembers) }

JsonTexts == { JsonText(v) : v \in JsonValues }

Inputs == PlainTexts \cup JsonTexts

NoResult == [exc |-> "pending", Category |-> <<>>, Explanation |-> <<>>]

(***************************************************************************)
(* Idle values of the parts a specification does not exercise              *)
(***************************************************************************)
NoText == PlainText(<<>>)

NoPrompt == [mode |-> "none", parts |-> <<>>]

IdleExtract ==
    /\ texto = NoText
    /\ extracted = NoResult

IdleTech ==
    /\ tech = "none"
    /\ ceiling = 0
    /\ limite = 0
    /\ rougeLib = FALSE
    /\ pc = "idle"
    /\ loc = <<>>
    /\ resultados = <<>>
    /\ calls = 0
    /\ sent = NoPrompt
    /\ backend = "none"
    /\ incidentNo = 0

IdleRunner ==
    /\ rows = <<>>
    /\ outcomes = <<>>
    /\ nextRow = 0
    /\ results = <<>>
    /\ rpc = "idle"

NoScoreIn == [lib |-> FALSE, a |-> <<>>, b |-> <<>>]

IdleFun ==
    /\ capture = <<>>
    /\ canon = <<>>
    /\ scoreIn = NoScoreIn
    /\ score = 0
    /\ fpc = "idle"

NoArgs == [max_iterations |-> 0, rouge_threshold |-> 0]

IdleCli ==
    /\ args = NoArgs
    /\ params = <<>>
    /\ cpc = "idle"

NotCalled == [called |-> FALSE]

NoFile == [exists |-> FALSE, valid |-> FALSE, content |-> <<>>]

IdleMet ==
    /\ file = NoFile
    /\ interactions = <<>>
    /\ wpc = <<>>
    /\ wdata = <<>>

IdleModel ==
    /\ adapter = "none"
    /\ rate_limit = 0
    /\ call_kwargs = <<>>
    /\ events = <<>>
    /\ mpc = "idle"

IdlePlug ==
    /\ prompt_plugins = <<>>
    /\ model_plugins = <<>>
    /\ listed = NotCalled
    /\ created = NotCalled
    /\ registrations = 0

(***************************************************************************)
(* Extractor harness: one response text, one call of the extractor         *)
(***************************************************************************)
InitExtract ==
    /\ texto \in Inputs
    /\ extracted = NoResult
    /\ IdleTech
    /\ IdleRunner
    /\ IdleFun
    /\ IdleCli
    /\ IdlePlug
    /\ IdleMet
    /\ IdleModel

ExtractCall ==
    /\ extracted = NoResult
    /\ extracted' = extract_security_incidents(texto)
    /\ UNCHANGED <<texto, techVars, runnerVars, funVars, cliVars, plugVars, metVars, modelVars>>

NextExtract == ExtractCall

SpecExtract == InitExtract /\ [][NextExtract]_vars

(***************************************************************************)
(* Properties of the extractor (checked under SpecExtract)                 *)
(***************************************************************************)
ExtractDone == extracted # NoResult

\* The text is a JSON object that has both keys.
HasBothKeys(t) ==
    /\ t.json.type = "object"
    /\ PyIn("Category", t.json)
    /\ PyIn("Explanation", t.json)

\* The Category:/Explanation: blocks of a token sequence, as a reader sees
\* them: a Category: marker followed by an Explanation: marker, with no other
\* Category: marker in between.  A block is named by the place of its marker.
BlockStarts(toks) ==
    { i \in 1..Len(toks) :
        /\ toks[i] \in CatKeys
        /\ FirstIn(toks, i + 1, ExplKeys) <= Len(toks)
        /\ FirstIn(toks, i + 1, CatKeys) > FirstIn(toks, i + 1, ExplKeys) }

Max(S) == CHOOSE x \in S : \A y \in S : y <= x

Min(S) == CHOOSE x \in S : \A y \in S : x <= y

\* The category of the block at i: what stands between its two markers; its
\* explanation: what follows the Explanation: marker up to the line's end.
BlockCategory(toks, i) ==
    extract_cat(CleanCapture(SubSeq(toks, i + 1, FirstIn(toks, i + 1, ExplKeys) - 1)))

BlockExplanation(toks, i) ==
    LET j == FirstIn(toks, i + 1, ExplKeys)
        k == FirstNotIn(toks, j + 1, {NL})
    IN  CleanCapture(SubSeq(toks, k, FirstIn(toks, k, {NL}) - 1))

\* Every Category: marker opens a block that is complete on the marker's own
\* line (the Explanation: marker and at least one word of explanation follow
\* before the line ends), and no line holds two Category: markers.
BlocksOnOwnLines(toks) ==
    \A i \in 1..Len(toks) :
        toks[i] \in CatKeys =>
            LET eol == FirstIn(toks, i + 1, {NL})
                j   == FirstIn(toks, i + 1, ExplKeys)
            IN  /\ j + 1 < eol
                /\ FirstIn(toks, i + 1, CatKeys) >= eol

\* C8 (as claimed): extraction never fails: for every response text extract
\* returns a pair without raising, and it returns the lowercase sentinel
\* unknown/unknown when neither the JSON path nor any block applies.
C8_ExtractNeverFails ==
    ExtractDone =>
        /\ extracted.exc = "none"
        /\ (~HasBothKeys(texto) /\ FindAll(texto.raw, 1) = <<>>)
               => extracted = Returned(<<"unknown">>, <<"unknown">>)

\* C9 (as claimed): for every text that is well-formed JSON with the keys
\* Category and Explanation, extract returns the two values, trimmed, and
\* neither the regex search nor the CAT canonicalization is applied.
C9_JsonValuesVerbatim ==
    (ExtractDone /\ HasBothKeys(texto)) =>
        /\ extracted.exc = "none"
        /\ LET c == PyGet(texto.json.members, "Category")
               e == PyGet(texto.json.members, "Explanation")
           IN  /\ c.type = "string" /\ e.type = "string"
               /\ extracted = Returned(Strip(c.s), Strip(e.s))

MaxCeiling == 2

DefaultThreshold == 90

Techniques == {"php", "shp", "prp", "htp"}

\* [f"CAT{i}" for i in range(1, 13)]
categories ==
    <<"CAT1", "CAT2", "CAT3", "CAT4", "CAT5", "CAT6",
      "CAT7", "CAT8", "CAT9", "CAT10", "CAT11", "CAT12">>

\* max_hints / max_iter.  Hypothesis testing is also run with ceilings
\* around the number of categories.
Ceilings(t) ==
    IF t = "htp"
    THEN 0..MaxCeiling \cup {Len(categories) - 1, Len(categories), Len(categories) + 1}
    ELSE 0..MaxCeiling

\* limite_rouge / limite_qualidade in percent: always met, the default,
\* never met.
Thresholds == {0, DefaultThreshold, 101}

\* What the model may answer to a call.
Responses ==
    { PlainText(<<"Category:", "CAT1", NL, "Explanation:", "e1">>),
      PlainText(<<"**Category:**", "cat2", "likely", NL, "**Explanation:**", "e2">>),
      PlainText(<<"Category:", "Unknown", NL, "Explanation:", "Unknown">>),
      PlainText(<<"Category:", "Unknown", "category", "Explanation:", "e1">>),
      PlainText(<<"foo">>),
      JsonText(JNumber) }

\* What the model may answer to a call whose response is passed on unparsed
\* (the plan of Self Hint, the masked incident of Progressive Rectification).
Unparsed ==
    { PlainText(<<"Category:", "CAT1", NL, "Explanation:", "e1">>),
      PlainText(<<"foo">>) }

\* What send_prompt returns when the call to the model raises: the adapter
\* catches the exception and returns a text made of its message.
BackendError == PlainText(<<"Erro", "ao", "chamar", "modelo", "API:", "timeout">>)

\* The texts a send_prompt call may return, pool being what a working model
\* may answer.
send_prompt(pool) == IF backend = "down" THEN {BackendError} ELSE pool

IncidentId == "inc1"

InformacoesDasColunas == "target: t1"

Done == pc \in {"returned", "raised"}

\* The records the techniques append to resultados.  QualidadeRecord_next
\* numbers its record one past the iteration it is given.
RougeRecord(categoria, explicacao, rouge, iteracao) ==
    [id |-> IncidentId, informacoes_das_colunas |-> InformacoesDasColunas,
     categoria |-> categoria, explicacao |-> explicacao,
     rouge |-> rouge, iteracao |-> iteracao]

QualidadeRecord_next(categoria, explicacao, qualidade, iteracao) ==
    [id |-> IncidentId, informacoes_das_colunas |-> InformacoesDasColunas,
     categoria |-> categoria, explicacao |-> explicacao,
     qualidade |-> qualidade, iteracao |-> iteracao + 1]

QualidadeRecord(categoria, explicacao, qualidade, iteracao) ==
    [id |-> IncidentId, informacoes_das_colunas |-> InformacoesDasColunas,
     categoria |-> categoria, explicacao |-> explicacao,
     qualidade |-> qualidade, iteracao |-> iteracao]

TestedRecord(categoria, explicacao, testada, rouge, iteracao) ==
    [id |-> IncidentId, informacoes_das_colunas |-> InformacoesDasColunas,
     categoria |-> categoria, explicacao |-> explicacao,
     categoria_testada |-> testada, rouge |-> rouge, iteracao |-> iteracao]

\* execute() ends: it returns the list, or an exception leaves it.
Return(list) ==
    /\ pc' = "returned"
    /\ resultados' = list
    /\ loc' = <<>>

Raise(exc) ==
    /\ pc' = "raised"
    /\ resultados' = <<>>
    /\ loc' = [exc |-> exc]

Goto(label, locals) ==
    /\ pc' = label
    /\ loc' = locals
    /\ UNCHANGED resultados

Call == calls' = calls + 1

\* The pieces a prompt is put together from.
Part(p, arg) == [p |-> p, arg |-> arg]

BasePrompt == Part("prompt", <<>>)

OutputFormat == Part("output_format", <<>>)

Plano == Part("plano", <<>>)

\* prefix + s for the strings kept as word sequences
Prepend(prefix, s) == IF s = <<>> THEN <<prefix>> ELSE GlueFirst(prefix, s)

Params == UNCHANGED <<tech, ceiling, limite, rougeLib, backend, incidentNo>>

Score(a, b) == calculate_rouge_score(rougeLib, a, b)

(***************************************************************************)
(* Progressive Hint                                                        *)
(***************************************************************************)
\* The first call; with max_hints = 0 its extraction is the result.
\* Otherwise the loop is entered and the hint of round 1 is taken from it.
PHFirst ==
    /\ tech = "php" /\ pc = "start"
    /\ \E resposta \in send_prompt(Responses) :
        LET categoria_info == extract_security_incidents(resposta)
        IN  /\ Call
            /\ sent' = [mode |-> "php", parts |-> <<BasePrompt, OutputFormat>>]
            /\ IF ceiling = 0
               THEN IF categoria_info.exc # "none" THEN Raise(categoria_info.exc)
                    ELSE Return(<<RougeRecord(categoria_info.Category,
                                              categoria_info.Explanation, 0, 0)>>)
               ELSE IF ceiling < 0 THEN Return(<<>>)
               ELSE IF categoria_info.exc # "none" THEN Raise(categoria_info.exc)
               ELSE Goto("php_hint", [i |-> 0, categoria_anterior |-> categoria_info.Category])
    /\ Params

\* PHHint of a technique whose hint keeps naming the initial category
PHHint_stale ==
    /\ tech = "php" /\ pc = "php_hint"
    /\ \E nova_resposta \in send_prompt(Responses) :
        LET categoria_info == extract_security_incidents(nova_resposta)
            categoria_atual == categoria_info.Category
            rouge_score == Score(loc.categoria_anterior, categoria_atual)
        IN  /\ Call
            /\ sent' = [mode |-> "php",
                        parts |-> <<Part("hint", loc.categoria_anterior), BasePrompt, OutputFormat>>]
            /\ IF categoria_info.exc # "none" THEN Raise(categoria_info.exc)
               ELSE IF (loc.i + 1) = ceiling \/ rouge_score >= limite
               THEN Return(<<RougeRecord(categoria_atual, categoria_info.Explanation,
                                         rouge_score, loc.i + 1)>>)
               ELSE Goto("php_hint", [i |-> loc.i + 1, categoria_anterior |-> loc.categoria_anterior])
    /\ Params

\* One hint round: lines 51-78.
PHHint ==
    /\ tech = "php" /\ pc = "php_hint"
    /\ \E nova_resposta \in send_prompt(Responses) :
        LET categoria_info == extract_security_incidents(nova_resposta)
            categoria_atual == categoria_info.Category
            rouge_score == Score(loc.categoria_anterior, categoria_atual)
        IN  /\ Call
            /\ sent' = [mode |-> "php",
                        parts |-> <<Part("hint", loc.categoria_anterior), BasePrompt, OutputFormat>>]
            /\ IF categoria_info.exc # "none" THEN Raise(categoria_info.exc)
               ELSE IF (loc.i + 1) = ceiling \/ rouge_score >= limite
               THEN Return(<<RougeRecord(categoria_atual, categoria_info.Explanation,
                                         rouge_score, loc.i + 1)>>)
               ELSE Goto("php_hint", [i |-> loc.i + 1, categoria_anterior |-> categoria_atual])
    /\ Params

(***************************************************************************)
(* Self Hint                                                               *)
(***************************************************************************)
\* The planning call; its response is kept unparsed.
SHPlan ==
    /\ tech = "shp" /\ pc = "start"
    /\ \E plano_intermediario \in send_prompt(Unparsed) :
        /\ Call
        /\ sent' = [mode |-> "shp", parts |-> <<BasePrompt, Plano>>]
        /\ Goto("shp_exec", [plano_intermediario |-> plano_intermediario])
    /\ Params

\* The call that yields the initial category; then the loop is entered, or,
\* with max_iter <= 0, the empty list is returned.
SHExec ==
    /\ tech = "shp" /\ pc = "shp_exec"
    /\ \E response \in send_prompt(Responses) :
        LET incident == extract_security_incidents(response)
        IN  /\ Call
            /\ sent' = [mode |-> "shp", parts |-> <<BasePrompt, Plano, OutputFormat>>]
            /\ IF incident.exc # "none" THEN Raise(incident.exc)
               ELSE IF ceiling <= 0 THEN Return(<<>>)
               ELSE Goto("shp_reflect",
                         [i |-> 0, plano_intermediario |-> loc.plano_intermediario,
                          categoria_anterior |-> incident.Category])
    /\ Params

\* The reflection call of iteration i.
SHReflect ==
    /\ tech = "shp" /\ pc = "shp_reflect"
    /\ \E response \in send_prompt(Responses) :
        LET incident == extract_security_incidents(response)
            categoria_atual == incident.Category
            rouge_score == Score(loc.categoria_anterior, categoria_atual)
        IN  /\ Call
            /\ sent' = [mode |-> "shp",
                        parts |-> <<BasePrompt, Part("plano_intermediario", loc.plano_intermediario),
                                    Part("categoria", loc.categoria_anterior), OutputFormat>>]
            /\ IF incident.exc # "none" THEN Raise(incident.exc)
               ELSE IF (loc.i + 1 = ceiling) \/ rouge_score >= limite
               THEN Return(<<RougeRecord(categoria_atual, incident.Explanation,
                                         rouge_score, loc.i + 1)>>)
               ELSE Goto("shp_replan", [loc EXCEPT !.categoria_anterior = categoria_atual])
    /\ Params

\* SHReplan of a loop whose counter does not advance
SHReplan_stuck ==
    /\ tech = "shp" /\ pc = "shp_replan"
    /\ \E plano_intermediario \in send_prompt(Unparsed) :
        /\ Call
        /\ sent' = [mode |-> "shp",
                    parts |-> <<BasePrompt, Plano, Part("categoria", loc.categoria_anterior)>>]
        /\ Goto("shp_reflect", [loc EXCEPT !.plano_intermediario = plano_intermediario])
    /\ Params

\* The replanning call that ends a non-terminal iteration.
SHReplan ==
    /\ tech = "shp" /\ pc = "shp_replan"
    /\ \E plano_intermediario \in send_prompt(Unparsed) :
        /\ Call
        /\ sent' = [mode |-> "shp",
                    parts |-> <<BasePrompt, Plano, Part("categoria", loc.categoria_anterior)>>]
        /\ Goto("shp_reflect",
                [loc EXCEPT !.i = loc.i + 1, !.plano_intermediario = plano_intermediario])
    /\ Params

(***************************************************************************)
(* Progressive Rectification                                               *)
(***************************************************************************)
\* Where the while/for loops go on after an attempt's keyword list is used
\* up (or at the start): the next attempt with a keyword to mask, or the
\* final record when no attempt is left.
PRNextAttempt(attempt, categoria_atual, a_0, categoria_rejectada) ==
    LET subcategory == get_subcategories(categoria_atual)
    IN  IF attempt < ceiling /\ subcategory # <<>>
        THEN Goto("prp_mask",
                  [attempt |-> attempt, subcategory |-> subcategory, n |-> 1,
                   categoria_atual |-> categoria_atual, a_0 |-> a_0,
                   categoria_rejectada |-> categoria_rejectada])
        \* an empty keyword list leaves the candidate as it is, so every
        \* later attempt finds the same empty list
        ELSE Return(<<QualidadeRecord(categoria_atual, a_0, 0, ceiling)>>)

\* The initial call r_0 and its extraction a_0.
PRInitial ==
    /\ tech = "prp" /\ pc = "start"
    /\ \E r_0 \in send_prompt(Responses) :
        LET a_0 == extract_security_incidents(r_0)
        IN  /\ Call
            /\ sent' = [mode |-> "prp", parts |-> <<BasePrompt, OutputFormat>>]
            /\ IF a_0.exc # "none" THEN Raise(a_0.exc)
               ELSE PRNextAttempt(0, a_0.Category, a_0.Explanation, <<>>)
    /\ Params

\* _mask_prompt for the keyword subcategory[n].
PRMask ==
    /\ tech = "prp" /\ pc = "prp_mask"
    /\ \E incidente_mascarado \in send_prompt(Unparsed) :
        /\ Call
        /\ sent' = [mode |-> "prp",
                    parts |-> <<BasePrompt, Part("mask", <<loc.subcategory[loc.n]>>)>>]
        /\ Goto("prp_validate",
                [attempt |-> loc.attempt, subcategory |-> loc.subcategory, n |-> loc.n,
                 categoria_atual |-> loc.categoria_atual, a_0 |-> loc.a_0,
                 categoria_rejectada |-> loc.categoria_rejectada,
                 categoria_anterior |-> loc.categoria_atual,
                 incidente_mascarado |-> incidente_mascarado])
    /\ Params

\* PRValidate of a technique that reports the explanation of the validation
\* response
PRValidate_latest ==
    /\ tech = "prp" /\ pc = "prp_validate"
    /\ \E response \in send_prompt(Responses) :
        LET incident == extract_security_incidents(response)
            categoria_atual == incident.Category
            qualidade == Score(loc.categoria_anterior, categoria_atual)
        IN  /\ Call
            /\ sent' = [mode |-> "prp",
                        parts |-> <<Part("masked", loc.incidente_mascarado),
                                    Part("subcategory", <<loc.subcategory[loc.n]>>),
                                    Part("hypothesis", loc.categoria_atual)>>]
            /\ IF incident.exc # "none" THEN Raise(incident.exc)
               ELSE IF qualidade >= limite
               THEN Return(<<QualidadeRecord(categoria_atual, incident.Explanation, qualidade,
                                             loc.attempt + 1)>>)
               ELSE Goto("prp_rectify",
                         [attempt |-> loc.attempt, subcategory |-> loc.subcategory,
                          n |-> loc.n, categoria_atual |-> categoria_atual, a_0 |-> loc.a_0,
                          categoria_rejectada |-> Prepend(",", categoria_atual)])
    /\ Params

\* _validate_response and the convergence test.
PRValidate ==
    /\ tech = "prp" /\ pc = "prp_validate"
    /\ \E response \in send_prompt(Responses) :
        LET incident == extract_security_incidents(response)
            categoria_atual == incident.Category
            qualidade == Score(loc.categoria_anterior, categoria_atual)
        IN  /\ Call
            /\ sent' = [mode |-> "prp",
                        parts |-> <<Part("masked", loc.incidente_mascarado),
                                    Part("subcategory", <<loc.subcategory[loc.n]>>),
                                    Part("hypothesis", loc.categoria_atual)>>]
            /\ IF incident.exc # "none" THEN Raise(incident.exc)
               ELSE IF qualidade >= limite
               THEN Return(<<QualidadeRecord(categoria_atual, loc.a_0, qualidade,
                                             loc.attempt + 1)>>)
               ELSE Goto("prp_rectify",
                         [attempt |-> loc.attempt, subcategory |-> loc.subcategory,
                          n |-> loc.n, categoria_atual |-> categoria_atual, a_0 |-> loc.a_0,
                          categoria_rejectada |-> Prepend(",", categoria_atual)])
    /\ Params

\* The rectification call; then the next keyword, or the next attempt.
PRRectify ==
    /\ tech = "prp" /\ pc = "prp_rectify"
    /\ \E response \in send_prompt(Responses) :
        LET incident == extract_security_incidents(response)
        IN  /\ Call
            /\ sent' = [mode |-> "prp",
                        parts |-> <<BasePrompt, Part("rejected", loc.categoria_rejectada)>>]
            /\ IF incident.exc # "none" THEN Raise(incident.exc)
               ELSE IF loc.n < Len(loc.subcategory)
               THEN Goto("prp_mask",
                         [loc EXCEPT !.n = loc.n + 1, !.categoria_atual = incident.Category])
               ELSE PRNextAttempt(loc.attempt + 1, incident.Category, loc.a_0,
                                  loc.categoria_rejectada)
    /\ Params

(***************************************************************************)
(* Hypothesis Testing                                                      *)
(***************************************************************************)
NenhumaCategoria ==
    <<"Nenhuma", "categoria", "foi", "confirmada", "através", "do", "teste", "de", "hipóteses">>

\* while i < len(categories) and i < max_iter, never entered: the final
\* record reads incident_id, which only the loop body assigns.
HTNoLoop ==
    /\ tech = "htp" /\ pc = "start"
    /\ ~(0 < Len(categories) /\ 0 < ceiling)
    /\ Raise("UnboundLocalError")
    /\ UNCHANGED <<calls, sent>>
    /\ Params

\* HTTest of a technique that scores every response against the first
\* category
HTTest_first ==
    /\ tech = "htp" /\ pc \in {"start", "htp_test"}
    /\ LET i == IF pc = "start" THEN 0 ELSE loc.i
           category == categories[i + 1]
       IN  /\ i < Len(categories) /\ i < ceiling
           /\ \E hipoteses \in send_prompt(Responses) :
               LET incident_info == extract_security_incidents(hipoteses)
                   result_cat == incident_info.Category
                   rouge_score == Score(result_cat, <<categories[1]>>)
               IN  /\ Call
                   /\ sent' = [mode |-> "htp",
                               parts |-> <<BasePrompt, Part("category", <<category>>),
                                           Part("keywords", get_subcategories(<<category>>))>>]
                   /\ IF incident_info.exc # "none" THEN Raise(incident_info.exc)
                      ELSE IF rouge_score >= limite
                      THEN Return(<<TestedRecord(result_cat, incident_info.Explanation,
                                                 <<category>>, rouge_score, i + 1)>>)
                      ELSE IF i + 1 < Len(categories) /\ i + 1 < ceiling
                      THEN Goto("htp_test", [i |-> i + 1])
                      ELSE Return(<<TestedRecord(<<"UNKNOWN">>, NenhumaCategoria,
                                                 <<"ALL">>, 0, ceiling)>>)
    /\ Params

\* One pass of the loop: the hypothesis test of categories[i].
HTTest ==
    /\ tech = "htp" /\ pc \in {"start", "htp_test"}
    /\ LET i == IF pc = "start" THEN 0 ELSE loc.i
           category == categories[i + 1]
       IN  /\ i < Len(categories) /\ i < ceiling
           /\ \E hipoteses \in send_prompt(Responses) :
               LET incident_info == extract_security_incidents(hipoteses)
                   result_cat == incident_info.Category
                   rouge_score == Score(result_cat, <<category>>)
               IN  /\ Call
                   /\ sent' = [mode |-> "htp",
                               parts |-> <<BasePrompt, Part("category", <<category>>),
                                           Part("keywords", get_subcategories(<<category>>))>>]
                   /\ IF incident_info.exc # "none" THEN Raise(incident_info.exc)
                      ELSE IF rouge_score >= limite
                      THEN Return(<<TestedRecord(result_cat, incident_info.Explanation,
                                                 <<category>>, rouge_score, i + 1)>>)
                      ELSE IF i + 1 < Len(categories) /\ i + 1 < ceiling
                      THEN Goto("htp_test", [i |-> i + 1])
                      ELSE Return(<<TestedRecord(<<"UNKNOWN">>, NenhumaCategoria,
                                                 <<"ALL">>, 0, ceiling)>>)
    /\ Params

(***************************************************************************)
(* The specification of one execute() call                                 *)
(***************************************************************************)
Init ==
    /\ tech \in Techniques
    /\ ceiling \in Ceilings(tech)
    /\ limite \in Thresholds
    /\ rougeLib \in BOOLEAN
    /\ pc = "start"
    /\ loc = <<>>
    /\ resultados = <<>>
    /\ calls = 0
    /\ sent = NoPrompt
    /\ backend \in {"up", "down"}
    /\ incidentNo = 1
    /\ IdleExtract
    /\ IdleRunner
    /\ IdleFun
    /\ IdleCli
    /\ IdlePlug
    /\ IdleMet
    /\ IdleModel

Next ==
    \/ (PHFirst /\ UNCHANGED <<extractVars, runnerVars, funVars, cliVars, plugVars, metVars, modelVars>>)
    \/ (PHHint /\ UNCHANGED <<extractVars, runnerVars, funVars, cliVars, plugVars, metVars, modelVars>>)
    \/ (SHPlan /\ UNCHANGED <<extractVars, runnerVars, funVars, cliVars, plugVars, metVars, modelVars>>)
    \/ (SHExec /\ UNCHANGED <<extractVars, runnerVars, funVars, cliVars, plugVars, metVars, modelVars>>)
    \/ (SHReflect /\ UNCHANGED <<extractVars, runnerVars, funVars, cliVars, plugVars, metVars, modelVars>>)
    \/ (SHReplan /\ UNCHANGED <<extractVars, runnerVars, funVars, cliVars, plugVars, metVars, modelVars>>)
    \/ (PRInitial /\ UNCHANGED <<extractVars, runnerVars, funVars, cliVars, plugVars, metVars, modelVars>>)
    \/ (PRMask /\ UNCHANGED <<extractVars, runnerVars, funVars, cliVars, plugVars, metVars, modelVars>>)
    \/ (PRValidate /\ UNCHANGED <<extractVars, runnerVars, funVars, cliVars, plugVars, metVars, modelVars>>)
    \/ (PRRectify /\ UNCHANGED <<extractVars, runnerVars, funVars, cliVars, plugVars, metVars, modelVars>>)
    \/ (HTNoLoop /\ UNCHANGED <<extractVars, runnerVars, funVars, cliVars, plugVars, metVars, modelVars>>)
    \/ (HTTest /\ UNCHANGED <<extractVars, runnerVars, funVars, cliVars, plugVars, metVars, modelVars>>)

Spec == Init /\ [][Next]_vars

(***************************************************************************)
(* The batch runner: SecurityIncidentFramework._process_all_incidents.     *)
(* One action is one pass of the loop over the rows; execute() of the      *)
(* technique is a call that returns a list of records or raises.           *)
(***************************************************************************)
MaxRows == 3

\* The cells of a row: a scalar value, a missing value (NaN/None), or a
\* list, as pd.read_json yields for an array-valued field.
Value(v) == [kind |-> "value", v |-> v]

NaN == [kind |-> "nan"]

ListCell == [kind |-> "list"]

\* pd.isna / pd.notnull of a cell: a bool for a scalar, an array for a list.
isna(cell) ==
    IF cell.kind = "list" THEN "array"
    ELSE IF cell.kind = "nan" THEN "true" ELSE "false"

notnull(cell) ==
    IF cell.kind = "list" THEN "array"
    ELSE IF cell.kind = "nan" THEN "false" ELSE "true"

\* The rows of the loaded frames: the columns id and target, and the index
\* the row has in its frame.
RowForms ==
    { [id |-> i, target |-> Value("t1")] : i \in {Value("inc1"), Value("inc2"), NaN, ListCell} }
    \cup { [id |-> Value("inc1"), target |-> t] : t \in {NaN, ListCell} }

\* The index restarts with every frame: first rows of the first frame.
Indexed(forms, first) ==
    [k \in 1..Len(forms) |->
        [index |-> IF k <= first THEN k - 1 ELSE k - first - 1,
         id |-> forms[k].id, target |-> forms[k].target]]

Batches ==
    { Indexed(forms, first) :
        forms \in SeqsUpTo(RowForms, MaxRows), first \in 0..MaxRows }

\* _build_prompt: the description of the selected column, when present.
\* The truth test of an array raises ValueError.
build_prompt(row) ==
    IF notnull(row.target) = "array" THEN Raised("ValueError")
    ELSE [exc |-> "none",
          prompt |-> IF notnull(row.target) = "true"
                     THEN <<"[target]:", row.target.v>> ELSE <<>>]

\* _build_incident_info
build_incident_info(row) ==
    IF notnull(row.target) = "array" THEN Raised("ValueError")
    ELSE [exc |-> "none",
          info |-> IF notnull(row.target) = "true"
                   THEN <<"target:", row.target.v>>
                   ELSE <<"target:", "[valor", "ausente]">>]

\* What prompt_instance.execute may do: raise, or return records that carry
\* the id they were given (the four iterative techniques) or that have no
\* id key (free_prompt, zeroshot_b).
WithId(incident_id) == [id |-> incident_id, categoria |-> "CAT1"]

WithoutId ==
    [Response |-> <<"Category:", "CAT1">>, Category |-> "CAT1", Explanation |-> "Unknown"]

ExecuteOutcomes(incident_id) ==
    { Raised("RuntimeError"),
      [exc |-> "none", records |-> <<>>],
      [exc |-> "none", records |-> <<WithId(incident_id)>>],
      [exc |-> "none", records |-> <<WithoutId>>],
      [exc |-> "none", records |-> <<WithoutId, WithId(incident_id)>>] }

\* Backfill leaving the records as execute() returned them
Backfill_never(incident_results, incident_id) == incident_results

\* if 'id' not in result: result['id'] = incident_id
Backfill(incident_results, incident_id) ==
    [k \in 1..Len(incident_results) |->
        IF "id" \in DOMAIN incident_results[k] THEN incident_results[k]
        ELSE incident_results[k] @@ [id |-> incident_id]]

\* ErrorRecord of an except branch that only logs
ErrorRecord_silent(incident_id, info, e) == <<>>

\* The record of the except branch, as the list that extends results.
ErrorRecord(incident_id, info, e) ==
    <<[id |-> incident_id, informacoes_das_colunas |-> info,
       categoria |-> "ERROR", explicacao |-> <<"Erro no processamento:", e>>,
       erro |-> TRUE]>>

\* An exception that leaves _process_all_incidents: the loop ends and no
\* result list is returned.
Abort ==
    /\ rpc' = "aborted"
    /\ UNCHANGED <<rows, outcomes, nextRow, results>>

\* One pass of the loop body, lines 118-150.
ProcessRow ==
    /\ rpc = "running" /\ nextRow <= Len(rows)
    /\ LET row == rows[nextRow]
           missing == isna(row.id)
       IN  IF missing = "array" THEN Abort
           ELSE LET incident_id == IF missing = "true"
                                   THEN "row_" \o ToString(row.index)
                                   ELSE row.id.v
                    prompt == build_prompt(row)
                IN  IF prompt.exc # "none" THEN Abort
                    ELSE \E outcome \in ExecuteOutcomes(incident_id) :
                         IF outcome.exc = "none"
                         THEN /\ results' = results \o Backfill(outcome.records, incident_id)
                              /\ outcomes' = Append(outcomes, outcome)
                              /\ nextRow' = nextRow + 1
                              /\ UNCHANGED <<rows, rpc>>
                         ELSE LET info == build_incident_info(row)
                              IN  IF info.exc # "none" THEN Abort
                                  ELSE /\ results' = results \o
                                               ErrorRecord(incident_id, info.info, outcome.exc)
                                       /\ outcomes' = Append(outcomes, outcome)
                                       /\ nextRow' = nextRow + 1
                                       /\ UNCHANGED <<rows, rpc>>

\* return results, line 152
ReturnResults ==
    /\ rpc = "running" /\ nextRow > Len(rows)
    /\ rpc' = "done"
    /\ UNCHANGED <<rows, outcomes, nextRow, results>>

InitRunner ==
    /\ rows \in Batches
    /\ outcomes = <<>>
    /\ nextRow = 1
    /\ results = <<>>
    /\ rpc = "running"
    /\ IdleExtract
    /\ IdleTech
    /\ IdleFun
    /\ IdleCli
    /\ IdlePlug
    /\ IdleMet
    /\ IdleModel

NextRunner ==
    \/ (ProcessRow /\ UNCHANGED <<extractVars, techVars, funVars, cliVars, plugVars, metVars, modelVars>>)
    \/ (ReturnResults /\ UNCHANGED <<extractVars, techVars, funVars, cliVars, plugVars, metVars, modelVars>>)

SpecRunner == InitRunner /\ [][NextRunner]_vars

(***************************************************************************)
(* Properties of technique execution                                       *)
(***************************************************************************)
\* execute() ended by an exception of extract_security_incidents
ExtractionRaised == pc = "raised" /\ loc.exc \in {"TypeError", "AttributeError"}

Confirmed(r) ==
    /\ r.categoria_testada \in { <<categories[k]>> : k \in 1..Len(categories) }
    /\ r.iteracao \in 1..Len(categories)

Exhausted(r) ==
    /\ r.categoria = <<"UNKNOWN">>
    /\ r.categoria_testada = <<"ALL">>
    /\ r.rouge = 0
    /\ r.iteracao = Len(categories)

\* C1: whatever the ceiling, the threshold and the responses, execute of
\* Progressive Hint, Self Hint and Progressive Rectification returns a list
\* of exactly one record (runs that an extraction exception ended are set
\* aside: they are the subject of C8).
C1_ExactlyOneRecord ==
    (tech \in {"php", "shp", "prp"} /\ Done /\ ~ExtractionRaised) =>
        pc = "returned" /\ Len(resultados) = 1

\* C2: whatever max_iter and the responses, execute of Hypothesis Testing
\* returns exactly one record, which is a confirmed record of an iteration
\* k <= 12 or the record UNKNOWN / ALL with score 0.0 and iteration 12 (runs
\* that an extraction exception ended are set aside: see C8).
C2_ConfirmedOrAllAtTwelve ==
    (tech = "htp" /\ Done /\ ~ExtractionRaised) =>
        /\ pc = "returned"
        /\ Len(resultados) = 1
        /\ Confirmed(resultados[1]) \/ Exhausted(resultados[1])

\* C3: every record execute returns has an iteration count that does not
\* exceed the ceiling N the technique was run with.
C3_IterationWithinCeiling ==
    pc = "returned" =>
        \A k \in 1..Len(resultados) : resultados[k].iteracao <= ceiling

\* Witness of C3: a run that the threshold never stopped has returned its
\* record, numbered with the ceiling itself.
C3_Witness ==
    /\ pc = "returned" /\ limite > 100 /\ ceiling = MaxCeiling
    /\ Len(resultados) = 1
    /\ resultados[1].iteracao = ceiling

\* The longest keyword list of the table.
MaxKeywords == Max({ Len(palavras_chave[c]) : c \in DOMAIN palavras_chave })

\* The number of model calls one incident may take, from the ceiling N.
CallBound(t, N) ==
    IF t = "php" THEN 1 + N
    ELSE IF t = "shp" THEN 2 + N + (IF N > 0 THEN N - 1 ELSE 0)
    ELSE IF t = "htp" THEN Min({N, Len(categories)})
    ELSE 1 + 3 * N * MaxKeywords

\* C4: execute terminates: the number of model calls made for one incident
\* never exceeds a bound that depends on the ceiling alone (and on the size
\* of the keyword table for Progressive Rectification), also when the score
\* never reaches the threshold; and every step of execute makes one more
\* call or ends the run, so that a run takes at most that many steps and one.
C4_CallsBounded ==
    /\ [](calls <= CallBound(tech, ceiling))
    /\ [][calls' = calls + 1 \/ Done']_vars

\* Witness of C4: Progressive Rectification has used up its bound, every
\* attempt having gone through a longest keyword list without converging.
C4_Witness ==
    /\ tech = "prp" /\ ceiling = MaxCeiling /\ limite > 100
    /\ calls = CallBound(tech, ceiling)
    /\ pc = "returned"

(***************************************************************************)
(* Properties of the batch runner                                          *)
(***************************************************************************)
WellFormed(row) == row.id.kind # "list" /\ row.target.kind # "list"

\* The id a row resolves to: its id value, else row_<index>.
ResolvedId(row) ==
    IF row.id.kind = "value" THEN row.id.v ELSE "row_" \o ToString(row.index)

\* How many records the i-th processed row contributed, and the row that
\* the k-th aggregated record comes from.
Contributed(i) == IF outcomes[i].exc # "none" THEN 1 ELSE Len(outcomes[i].records)

RECURSIVE ContributedUpTo(_)
ContributedUpTo(i) == IF i = 0 THEN 0 ELSE ContributedUpTo(i - 1) + Contributed(i)

Origin(k) ==
    CHOOSE i \in 1..Len(outcomes) : ContributedUpTo(i - 1) < k /\ k <= ContributedUpTo(i)

\* The records a row owes to the result list, from the row and from what
\* its own execute() did, and nothing else.
IdGiven(record, id) ==
    [f \in DOMAIN record \cup {"id"} |-> IF f \in DOMAIN record THEN record[f] ELSE id]

Owed(i) ==
    IF outcomes[i].exc # "none"
    THEN <<[id |-> ResolvedId(rows[i]),
            informacoes_das_colunas |-> build_incident_info(rows[i]).info,
            categoria |-> "ERROR",
            explicacao |-> <<"Erro no processamento:", outcomes[i].exc>>,
            erro |-> TRUE]>>
    ELSE [k \in 1..Len(outcomes[i].records) |->
              IdGiven(outcomes[i].records[k], ResolvedId(rows[i]))]

\* C5: in a batch of well-formed rows, whichever rows' execute() raises, the
\* runner goes on to the following rows and reaches the end of the batch;
\* each failing row contributes exactly one ERROR record with erro = true and
\* the exception message, and every other row contributes the records it
\* contributes when no row fails.
C5_RowIsolation ==
    (\A i \in 1..Len(rows) : WellFormed(rows[i])) =>
        /\ rpc # "aborted"
        /\ Len(outcomes) = nextRow - 1
        /\ (rpc = "done" => Len(outcomes) = Len(rows))
        /\ results = Flatten([i \in 1..Len(outcomes) |-> Owed(i)])

\* Witness of C5: a batch has been processed to its end in which a row
\* whose execute() raised stands between two rows that returned one record
\* each, and the result list has as many records as the batch has rows.
C5_Witness ==
    /\ rpc = "done"
    /\ Len(results) = Len(rows)
    /\ \E h \in 1..Len(outcomes) : \E i \in 1..Len(outcomes) : \E j \in 1..Len(outcomes) :
        /\ h < i /\ i < j
        /\ outcomes[i].exc # "none"
        /\ results[i].categoria = "ERROR" /\ results[i].erro
        /\ outcomes[h].exc = "none" /\ Len(outcomes[h].records) = 1
        /\ outcomes[j].exc = "none" /\ Len(outcomes[j].records) = 1

\* C6: no failure in the processing of a single row, a malformed row
\* included, aborts the batch.
C6_NeverAborted == rpc # "aborted"

\* C7: every record of the aggregated result list has an id, which is the
\* resolved id of the row that produced it.
C7_RecordsCarryResolvedId ==
    \A k \in 1..Len(results) :
        /\ "id" \in DOMAIN results[k]
        /\ results[k].id = ResolvedId(rows[Origin(k)])

\* Witness of C7: a row without an id value has produced, through a record
\* returned without an id field, a record with the placeholder of its index;
\* and a row has produced an ERROR record.
C7_Witness ==
    /\ \E k \in 1..Len(results) :
        /\ rows[Origin(k)].id.kind = "nan"
        /\ outcomes[Origin(k)].exc = "none"
        /\ "id" \notin DOMAIN outcomes[Origin(k)].records[k - ContributedUpTo(Origin(k) - 1)]
        /\ results[k].id = "row_" \o ToString(rows[Origin(k)].index)
    /\ \E k \in 1..Len(results) :
        "erro" \in DOMAIN results[k] /\ results[k].categoria = "ERROR"

(***************************************************************************)
(* Calls of the pure helpers on drawn arguments                            *)
(***************************************************************************)
MaxWords == 2

\* The words a category capture is made of.
CaptureWords ==
    {"CAT1", "cat5", "CAT12", "cat13", "CAT0", "(cat5)", "CAT1.", "cat5_x",
     "(likely)", "Unknown"}

Captures == SeqsUpTo(CaptureWords, MaxWords)

InitCat ==
    /\ capture \in Captures
    /\ canon = <<>>
    /\ scoreIn = NoScoreIn
    /\ score = 0
    /\ fpc = "start"
    /\ IdleExtract
    /\ IdleTech
    /\ IdleRunner
    /\ IdleCli
    /\ IdlePlug
    /\ IdleMet
    /\ IdleModel

\* categoria = self._extract_cat(capture)
CatCall ==
    /\ fpc = "start"
    /\ canon' = extract_cat(capture)
    /\ fpc' = "done"
    /\ UNCHANGED <<capture, scoreIn, score, extractVars, techVars, runnerVars, cliVars, plugVars, metVars, modelVars>>

NextCat == CatCall

SpecCat == InitCat /\ [][NextCat]_vars

\* The two answers calculate_rouge_score compares.
ScoreWords == {"CAT1", "cat1", "Unknown", "UNKNOWN"}

ScoreStrings == SeqsUpTo(ScoreWords, MaxWords)

InitScore ==
    /\ scoreIn \in [lib : BOOLEAN, a : ScoreStrings, b : ScoreStrings]
    /\ score = 0
    /\ capture = <<>>
    /\ canon = <<>>
    /\ fpc = "start"
    /\ IdleExtract
    /\ IdleTech
    /\ IdleRunner
    /\ IdleCli
    /\ IdlePlug
    /\ IdleMet
    /\ IdleModel

\* self.calculate_rouge_score(a, b)
ScoreCall ==
    /\ fpc = "start"
    /\ score' = calculate_rouge_score(scoreIn.lib, scoreIn.a, scoreIn.b)
    /\ fpc' = "done"
    /\ UNCHANGED <<capture, canon, scoreIn, extractVars, techVars, runnerVars, cliVars, plugVars, metVars, modelVars>>

NextScore == ScoreCall

SpecScore == InitScore /\ [][NextScore]_vars

(***************************************************************************)
(* Properties of the pure helpers                                          *)
(***************************************************************************)
\* The words that hold, as a whole word and in either case, CAT followed by
\* a number from 1 to 12, with the code each names.
WholeWordCode ==
    [w \in {"CAT1", "CAT1."} |-> "CAT1"] @@
    [w \in {"cat5", "(cat5)"} |-> "CAT5"] @@
    [w \in {"CAT12"} |-> "CAT12"]

HoldsCode(w) == w \in DOMAIN WholeWordCode

\* C11: a capture that contains CAT<N>, 1 <= N <= 12, as a whole word in
\* either case is canonicalized to the uppercase CAT<N> (of its first such
\* word); a capture without one (CAT13, CAT0, free text) is returned
\* unchanged.
C11_Canonicalization ==
    fpc = "done" =>
        IF \E k \in 1..Len(capture) : HoldsCode(capture[k])
        THEN LET k == Min({ j \in 1..Len(capture) : HoldsCode(capture[j]) })
             IN  canon = <<WholeWordCode[capture[k]]>>
        ELSE canon = capture

\* Witness of C11: the capture "cat5 (likely)" has been canonicalized to CAT5.
C11_Witness ==
    /\ fpc = "done"
    /\ capture = <<"cat5", "(likely)">>
    /\ canon = <<"CAT5">>

\* Equality of two strings ignoring case, word by word.
SameIgnoringCase(a, b) ==
    /\ Len(a) = Len(b)
    /\ \A k \in 1..Len(a) :
        \/ a[k] = b[k]
        \/ {a[k], b[k]} \in {{"CAT1", "cat1"}, {"Unknown", "UNKNOWN"}}

\* C12: without the similarity library the score of a and b is 1.0 when they
\* are equal ignoring case and 0.0 otherwise; it is then the score of b and a
\* as well, and the score of a against itself is 1.0.
C12_FallbackScore ==
    (fpc = "done" /\ ~scoreIn.lib) =>
        /\ score = (IF SameIgnoringCase(scoreIn.a, scoreIn.b) THEN 100 ELSE 0)
        /\ score = calculate_rouge_score(FALSE, scoreIn.b, scoreIn.a)
        /\ calculate_rouge_score(FALSE, scoreIn.a, scoreIn.a) = 100

\* Witness of C12: two answers that differ in case only have been scored 1.0
\* without the library.
C12_Witness ==
    /\ fpc = "done" /\ ~scoreIn.lib
    /\ scoreIn.a # scoreIn.b
    /\ Len(scoreIn.a) = MaxWords
    /\ score = 100

(***************************************************************************)
(* Properties of the techniques, continued                                 *)
(***************************************************************************)
\* C13: Progressive Hint with max_hints = 0 makes exactly one model call, no
\* hint round, and returns one record that carries the category and the
\* explanation extracted from the response to that call, with score 0.0 and
\* iteration 0.
C13_ZeroHintsOneCall ==
    [][(tech = "php" /\ ceiling = 0 /\ pc = "start") =>
           /\ pc' = "returned"
           /\ calls' = 1
           /\ sent'.parts = <<BasePrompt, OutputFormat>>
           /\ \E resposta \in Responses \cup {BackendError} :
               LET info == extract_security_incidents(resposta)
               IN  /\ info.exc = "none"
                   /\ resultados' = <<RougeRecord(info.Category, info.Explanation, 0, 0)>>
      ]_vars

\* C14: a confirmed record of Hypothesis Testing, emitted while CAT<k> is
\* tested (the k-th test, hence after k calls), has the tested category as
\* its category (categoria = categoria_testada = CAT<k>), the achieved score,
\* which is at least the threshold, and iteration k.
C14_ConfirmedIsTested ==
    (tech = "htp" /\ pc = "returned" /\ resultados[1].categoria_testada # <<"ALL">>) =>
        LET r == resultados[1]
            k == calls
        IN  /\ r.categoria_testada = <<categories[k]>>
            /\ r.categoria = r.categoria_testada
            /\ r.rouge >= limite
            /\ r.rouge = Score(r.categoria, r.categoria_testada)
            /\ r.iteracao = k

\* The categories that stand for "not classified".
UnknownSentinels == {<<"unknown">>, <<"Unknown">>, <<"UNKNOWN">>}

\* C15: when every model call of an incident fails and the adapter returns
\* its error text, each technique still returns one normal record, not an
\* ERROR record, whose category is an unknown sentinel.
C15_FailingBackendYieldsUnknown ==
    (backend = "down" /\ calls > 0 /\ Done) =>
        /\ pc = "returned"
        /\ Len(resultados) = 1
        /\ "erro" \notin DOMAIN resultados[1]
        /\ resultados[1].categoria \in UnknownSentinels

(***************************************************************************)
(* The command line: main() hands --max-iterations and --rouge-threshold   *)
(* to process_incidents, which merges them into the technique's            *)
(* default_params and passes the result to execute() as keyword arguments. *)
(***************************************************************************)
\* default_params of the technique's configuration entry: none, the names
\* the techniques read, or the names the command line uses.
DefaultParams ==
    { <<>>,
      [k \in {"max_hints", "max_iter"} |-> 1] @@
          [k \in {"limite_rouge", "limite_qualidade"} |-> 50],
      [k \in {"max_iterations"} |-> 1] @@ [k \in {"rouge_threshold"} |-> 50] }

\* --max-iterations (default 3) and --rouge-threshold (default 0.7)
ArgValues ==
    [max_iterations : 0..(MaxCeiling + 1), rouge_threshold : Thresholds \cup {70}]

\* technique_params of main(): an argument is passed on when it is truthy.
technique_params(a) ==
    (IF a.max_iterations # 0
     THEN [k \in {"max_iterations"} |-> a.max_iterations] ELSE <<>>) @@
    (IF a.rouge_threshold # 0
     THEN [k \in {"rouge_threshold"} |-> a.rouge_threshold] ELSE <<>>)

\* kwargs.get(key, default)
KwGet(kwargs, key, default) == IF key \in DOMAIN kwargs THEN kwargs[key] ELSE default

\* The ceiling and the threshold execute() reads from its keyword arguments.
ReadCeiling(t, kwargs) ==
    IF t = "php" THEN KwGet(kwargs, "max_hints", 4)
    ELSE IF t = "htp" THEN KwGet(kwargs, "max_iter", Len(categories))
    ELSE KwGet(kwargs, "max_iter", 4)

ReadThreshold(t, kwargs) ==
    IF t = "php" THEN KwGet(kwargs, "limite_rouge", DefaultThreshold)
    ELSE KwGet(kwargs, "limite_qualidade", DefaultThreshold)

InitCli ==
    /\ args \in ArgValues
    /\ params \in DefaultParams
    /\ cpc = "main"
    /\ tech \in Techniques
    /\ ceiling = 0
    /\ limite = 0
    /\ rougeLib = FALSE
    /\ pc = "idle"
    /\ loc = <<>>
    /\ resultados = <<>>
    /\ calls = 0
    /\ sent = NoPrompt
    /\ backend = "none"
    /\ incidentNo = 0
    /\ IdleExtract
    /\ IdleRunner
    /\ IdleFun
    /\ IdlePlug
    /\ IdleMet
    /\ IdleModel

\* main() up to the entry of execute() for an incident: params.update(kwargs),
\* execute(prompt, row, columns, **params).
Main ==
    /\ cpc = "main"
    /\ LET merged == technique_params(args) @@ params
       IN  /\ params' = merged
           /\ ceiling' = ReadCeiling(tech, merged)
           /\ limite' = ReadThreshold(tech, merged)
    /\ pc' = "start"
    /\ cpc' = "done"
    /\ UNCHANGED <<args, tech, rougeLib, loc, resultados, calls, sent, backend, incidentNo,
                   extractVars, runnerVars, funVars, plugVars, metVars, modelVars>>

NextCli == Main

SpecCli == InitCli /\ [][NextCli]_vars

\* C16: the iteration limit and the threshold given on the command line are
\* the ceiling and the threshold the selected technique's loop uses.
C16_CliValuesUsed ==
    cpc = "done" =>
        /\ ceiling = args.max_iterations
        /\ limite = args.rouge_threshold

(***************************************************************************)
(* The plugin manager (core/plugin_manager.py)                             *)
(***************************************************************************)
MaxRegistrations == 1

\* The prompt plugin classes of plugins/prompts.
PromptClasses ==
    {"ProgressiveHintPlugin", "SelfHintPlugin", "ProgressiveRectificationPlugin",
     "HypothesisTestingPlugin", "FreePromptPlugin", "ZeroShotPlugin"}

\* What _register_default_plugins registers.
DefaultPromptPlugins ==
    [n \in {"ProgressiveHintPlugin", "SelfHintPlugin",
            "ProgressiveRectificationPlugin", "HypothesisTestingPlugin"} |-> n]

DefaultModelPlugins(MOCK_AVAILABLE) ==
    [n \in {"APIModel", "LocalModel", "HuggingfaceModel"}
           \cup (IF MOCK_AVAILABLE THEN {"MockModel"} ELSE {}) |-> n]

None == [type |-> "None"]

\* PluginManager()
InitPlug ==
    /\ prompt_plugins = DefaultPromptPlugins
    /\ \E MOCK_AVAILABLE \in BOOLEAN : model_plugins = DefaultModelPlugins(MOCK_AVAILABLE)
    /\ listed = NotCalled
    /\ created = NotCalled
    /\ registrations = 0
    /\ IdleExtract
    /\ IdleTech
    /\ IdleRunner
    /\ IdleFun
    /\ IdleCli
    /\ IdleMet
    /\ IdleModel

\* register_prompt_plugin(name, plugin_class)
register_prompt_plugin ==
    /\ registrations < MaxRegistrations
    /\ \E name \in PromptClasses : \E plugin_class \in {name, "FreePromptPlugin"} :
        prompt_plugins' = [n \in DOMAIN prompt_plugins \cup {name} |->
                              IF n = name THEN plugin_class ELSE prompt_plugins[n]]
    /\ registrations' = registrations + 1
    /\ UNCHANGED <<model_plugins, listed, created>>

\* list_available_prompts()
list_available_prompts ==
    /\ listed' = [called |-> TRUE, names |-> DOMAIN prompt_plugins]
    /\ UNCHANGED <<prompt_plugins, model_plugins, created, registrations>>

\* create_prompt_instance(plugin_name, model_instance)
create_prompt_instance ==
    /\ \E plugin_name \in PromptClasses \cup {"NoSuchPlugin"} :
       \E model_instance \in DOMAIN model_plugins :
        LET plugin_class == IF plugin_name \in DOMAIN prompt_plugins
                            THEN prompt_plugins[plugin_name] ELSE "None"
        IN  created' = [called |-> TRUE, plugin_name |-> plugin_name,
                        instance |-> IF plugin_class = "None" THEN None
                                     ELSE [type |-> plugin_class,
                                           model_plugin |-> model_instance]]
    /\ UNCHANGED <<prompt_plugins, model_plugins, listed, registrations>>

NextPlug ==
    \/ (register_prompt_plugin /\ UNCHANGED <<extractVars, techVars, runnerVars, funVars, cliVars, metVars, modelVars>>)
    \/ (list_available_prompts /\ UNCHANGED <<extractVars, techVars, runnerVars, funVars, cliVars, metVars, modelVars>>)
    \/ (create_prompt_instance /\ UNCHANGED <<extractVars, techVars, runnerVars, funVars, cliVars, metVars, modelVars>>)

SpecPlug == InitPlug /\ [][NextPlug]_vars

\* C17: a freshly constructed PluginManager (no plugin registered after its
\* construction) lists "ZeroShotPlugin" among its prompt plugins, and
\* create_prompt_instance("ZeroShotPlugin", model) returns an instance, not
\* None.
C17_ZeroShotRegistered ==
    registrations = 0 =>
        /\ (listed.called => "ZeroShotPlugin" \in listed.names)
        /\ ((created.called /\ created.plugin_name = "ZeroShotPlugin")
                => created.instance # None)

(***************************************************************************)
(* Several incidents on one plugin instance                                *)
(*                                                                         *)
(* _process_all_incidents calls prompt_instance.execute once per row, on   *)
(* the same instance and with the same params.  Whatever execute keeps is  *)
(* in its local variables; the instance holds model_plugin and logger,     *)
(* assigned in __init__ only.                                              *)
(***************************************************************************)
MaxIncidents == 2

\* The loop's next pass keeps on with what the last call left behind.
Enter_keep ==
    /\ Done
    /\ incidentNo < MaxIncidents
    /\ incidentNo' = incidentNo + 1
    /\ pc' = "start"
    /\ UNCHANGED <<loc, resultados, calls, sent>>
    /\ UNCHANGED <<tech, ceiling, limite, rougeLib, backend>>

\* The loop's next pass: execute() is called for the next row, after the
\* last call returned or raised (the exception is caught in the loop).
Enter ==
    /\ Done
    /\ incidentNo < MaxIncidents
    /\ incidentNo' = incidentNo + 1
    /\ pc' = "start"
    /\ loc' = <<>>
    /\ resultados' = <<>>
    /\ calls' = 0
    /\ sent' = NoPrompt
    /\ UNCHANGED <<tech, ceiling, limite, rougeLib, backend>>

NextSeries ==
    \/ Next
    \/ (Enter /\ UNCHANGED <<extractVars, runnerVars, funVars, cliVars, plugVars, metVars, modelVars>>)

SpecSeries == Init /\ [][NextSeries]_vars

MaxWriters == 2

MaxStored == 1

Writers == 1..MaxWriters

Elems(s) == { s[i] : i \in 1..Len(s) }

Stored(content) == [exists |-> TRUE, valid |-> TRUE, content |-> content]

\* open(filepath, 'w') leaves an empty file, which json.load rejects
Truncated == [exists |-> TRUE, valid |-> FALSE, content |-> <<>>]

InitMetrics ==
    /\ file \in {NoFile} \cup { Stored([i \in 1..k |-> 0]) : k \in 0..MaxStored }
    /\ interactions = <<>>
    /\ wpc = [w \in Writers |-> "append"]
    /\ wdata = [w \in Writers |-> <<>>]
    /\ IdleExtract
    /\ IdleTech
    /\ IdleRunner
    /\ IdleFun
    /\ IdleCli
    /\ IdlePlug
    /\ IdleModel

\* self.interactions.append(interaction)
AppendInteraction(w) ==
    /\ wpc[w] = "append"
    /\ interactions' = Append(interactions, w)
    /\ wpc' = [wpc EXCEPT ![w] = "exists"]
    /\ UNCHANGED <<file, wdata>>

\* data = []; if filepath.exists(): ... else straight to data.append
CheckExists(w) ==
    /\ wpc[w] = "exists"
    /\ IF file.exists
       THEN /\ wpc' = [wpc EXCEPT ![w] = "load"]
            /\ UNCHANGED wdata
       ELSE /\ wpc' = [wpc EXCEPT ![w] = "open"]
            /\ wdata' = [wdata EXCEPT ![w] = <<w>>]
    /\ UNCHANGED <<file, interactions>>

\* data = json.load(f), or data stays [] when the load raises; then
\* data.append(interaction)
LoadFile(w) ==
    /\ wpc[w] = "load"
    /\ wdata' = [wdata EXCEPT ![w] =
                    Append(IF file.valid THEN file.content ELSE <<>>, w)]
    /\ wpc' = [wpc EXCEPT ![w] = "open"]
    /\ UNCHANGED <<file, interactions>>

\* open(filepath, 'w', encoding='utf-8')
OpenForWrite(w) ==
    /\ wpc[w] = "open"
    /\ file' = Truncated
    /\ wpc' = [wpc EXCEPT ![w] = "dump"]
    /\ UNCHANGED <<interactions, wdata>>

\* json.dump(data, f, ...) and the close: the text is written from offset 0
\* of this call's handle.  A longer text written by another call since this
\* call's open keeps its tail, and the file no longer parses.
Dump(w) ==
    /\ wpc[w] = "dump"
    /\ file' = IF file.valid /\ Len(file.content) > Len(wdata[w])
               THEN Truncated
               ELSE Stored(wdata[w])
    /\ wpc' = [wpc EXCEPT ![w] = "done"]
    /\ UNCHANGED <<interactions, wdata>>

NextMetrics ==
    \/ \E w \in Writers : AppendInteraction(w) /\ UNCHANGED <<extractVars, techVars, runnerVars, funVars, cliVars, plugVars, modelVars>>
    \/ \E w \in Writers : CheckExists(w) /\ UNCHANGED <<extractVars, techVars, runnerVars, funVars, cliVars, plugVars, modelVars>>
    \/ \E w \in Writers : LoadFile(w) /\ UNCHANGED <<extractVars, techVars, runnerVars, funVars, cliVars, plugVars, modelVars>>
    \/ \E w \in Writers : OpenForWrite(w) /\ UNCHANGED <<extractVars, techVars, runnerVars, funVars, cliVars, plugVars, modelVars>>
    \/ \E w \in Writers : Dump(w) /\ UNCHANGED <<extractVars, techVars, runnerVars, funVars, cliVars, plugVars, modelVars>>

SpecMetrics == InitMetrics /\ [][NextMetrics]_vars

AllLogged == \A w \in Writers : wpc[w] = "done"

\* C19: the metrics sink is safe for concurrent append.  When the
\* log_interaction calls for one model and mode have all finished, however
\* their steps interleaved, the persisted file parses and holds every one of
\* their interactions.
C19_NoAppendLost ==
    AllLogged => (file.valid /\ Writers \subseteq Elems(file.content))

(***************************************************************************)
(* Progressive Rectification: the exclusion list                           *)
(***************************************************************************)
\* The categories a response can be extracted to.
ExtractedCategories ==
    { extract_security_incidents(r).Category : r \in Responses \cup {BackendError} }

\* The entry ',' + categoria is part of the comma-joined list.
ListedIn(categoria, categoria_rejectada) ==
    LET entry == Prepend(",", categoria)
    IN  \E i \in 1..Len(categoria_rejectada) : \E j \in i..Len(categoria_rejectada) :
            SubSeq(categoria_rejectada, i, j) = entry

\* C20: in Progressive Rectification the rejected categories only accumulate
\* within an incident.  When a validation rejects the candidate, the list
\* kept for the rectification prompt holds the category just rejected and
\* every category the list held at the previous rectification; the
\* rectification call then writes that list into its prompt.
C20_RejectedAccumulate ==
    [][ /\ (tech = "prp" /\ pc = "prp_validate" /\ pc' = "prp_rectify") =>
               /\ ListedIn(loc'.categoria_atual, loc'.categoria_rejectada)
               /\ \A c \in ExtractedCategories :
                      ListedIn(c, loc.categoria_rejectada)
                          => ListedIn(c, loc'.categoria_rejectada)
        /\ (tech = "prp" /\ pc = "prp_rectify" /\ pc' # pc) =>
               sent'.parts[2] = Part("rejected", loc.categoria_rejectada)
      ]_vars

(***************************************************************************)
(* Progressive Rectification: the record and the keyword loop              *)
(***************************************************************************)
PRLoop == {"prp_mask", "prp_validate", "prp_rectify"}

\* What the model may answer, working or not.
Answers == Responses \cup {BackendError}

\* C21: the explanation of every record Progressive Rectification returns,
\* on convergence and on exhaustion alike, is the explanation extracted from
\* the initial response a_0: the initial call keeps a_0's explanation, no
\* validation or rectification step changes it, and the one record returned
\* carries it.
C21_ExplanationFromInitial ==
    [][ tech = "prp" =>
          /\ (pc = "start" /\ pc' \in PRLoop) =>
                 \E r_0 \in Answers :
                     /\ loc'.a_0 = extract_security_incidents(r_0).Explanation
                     /\ loc'.categoria_atual = extract_security_incidents(r_0).Category
          /\ (pc \in PRLoop /\ pc' \in PRLoop) => loc'.a_0 = loc.a_0
          /\ (pc = "start" /\ pc' = "returned") =>
                 /\ Len(resultados') = 1
                 /\ \E r_0 \in Answers :
                     /\ resultados'[1].explicacao = extract_security_incidents(r_0).Explanation
                     /\ resultados'[1].categoria = extract_security_incidents(r_0).Category
          /\ (pc \in PRLoop /\ pc' = "returned") =>
                 /\ Len(resultados') = 1
                 /\ resultados'[1].explicacao = loc.a_0
      ]_vars

\* A record returned after validation whose category and explanation do not
\* come from one response: the category is not a_0's.
C21_Witness ==
    /\ tech = "prp"
    /\ pc = "returned"
    /\ calls > 1
    /\ Len(resultados) = 1
    /\ \A r \in Answers :
           ~ /\ extract_security_incidents(r).exc = "none"
             /\ extract_security_incidents(r).Category = resultados[1].categoria
             /\ extract_security_incidents(r).Explanation = resultados[1].explicacao

\* The categories the model's answers are extracted to, when the extraction
\* returns.
AnswerCategories ==
    { extract_security_incidents(r).Category :
        r \in { a \in Answers : extract_security_incidents(a).exc = "none" } }

\* C22: Progressive Rectification handles each keyword as a masking call on
\* the original prompt, then a validation call that receives the masked
\* text and the previous candidate as hypothesis and whose extracted
\* category becomes the new candidate; if score(previous, new) >= threshold
\* execute returns at once a record with the new candidate, that score and
\* iteration attempt + 1, without a rectification call; otherwise exactly
\* one rectification call follows and its extracted category is the
\* candidate for the next keyword.
C22_KeywordHandling ==
    [][ tech = "prp" =>
          /\ (pc = "prp_mask" /\ pc' # pc) =>
                 /\ pc' = "prp_validate"
                 /\ calls' = calls + 1
                 /\ sent'.parts = <<BasePrompt, Part("mask", <<loc.subcategory[loc.n]>>)>>
                 /\ loc'.categoria_atual = loc.categoria_atual
          /\ (pc = "prp_validate" /\ pc' # pc) =>
                 /\ calls' = calls + 1
                 /\ sent'.parts[1] = Part("masked", loc.incidente_mascarado)
                 /\ sent'.parts[3] = Part("hypothesis", loc.categoria_atual)
                 /\ \/ /\ pc' = "returned"
                       /\ Len(resultados') = 1
                       /\ resultados'[1].categoria \in AnswerCategories
                       /\ resultados'[1].qualidade
                              = Score(loc.categoria_atual, resultados'[1].categoria)
                       /\ resultados'[1].qualidade >= limite
                       /\ resultados'[1].iteracao = loc.attempt + 1
                    \/ /\ pc' = "prp_rectify"
                       /\ loc'.categoria_atual \in AnswerCategories
                       /\ Score(loc.categoria_atual, loc'.categoria_atual) < limite
          /\ (pc = "prp_rectify" /\ pc' # pc) =>
                 /\ calls' = calls + 1
                 /\ \/ /\ pc' = "prp_mask"
                       /\ loc'.categoria_atual \in AnswerCategories
                    \/ /\ pc' = "returned"
                       /\ Len(resultados') = 1
                       /\ resultados'[1].categoria \in AnswerCategories
      ]_vars

\* C23: every keyword Progressive Rectification masks belongs to the
\* keyword list of the candidate category that is current at that moment
\* (the category passed as hypothesis to that keyword's validation call),
\* also after a rectification has changed the candidate in the middle of an
\* attempt.
C23_KeywordOfCurrentCandidate ==
    (tech = "prp" /\ pc \in {"prp_mask", "prp_validate"}) =>
        loc.subcategory[loc.n] \in Elems(get_subcategories(loc.categoria_atual))

(***************************************************************************)
(* Progressive Hint: the hint rounds                                       *)
(***************************************************************************)
\* The extractions of the model's answers that return.
AnswerExtractions ==
    { extract_security_incidents(r) :
        r \in { a \in Answers : extract_security_incidents(a).exc = "none" } }

\* C24: with max_hints >= 1, Progressive Hint emits and stops in hint round
\* i (1 <= i <= max_hints) if and only if i = max_hints or
\* score(previous category, new category) >= threshold; the record carries
\* the category and explanation extracted from round i's response, that
\* score and iteration i, and exactly 1 + i model calls have been made.  A
\* round that does not emit is followed by round i + 1.
C24_HintRoundStops ==
    [][ (tech = "php" /\ pc = "php_hint" /\ calls' # calls) =>
          LET i == loc.i + 1
          IN  /\ 1 <= i /\ i <= ceiling
              /\ pc' \in {"returned", "php_hint"}
              /\ pc' = "returned" =>
                     /\ calls' = 1 + i
                     /\ \E x \in AnswerExtractions :
                         LET rouge_score == Score(loc.categoria_anterior, x.Category)
                         IN  /\ i = ceiling \/ rouge_score >= limite
                             /\ Len(resultados') = 1
                             /\ resultados'[1].categoria = x.Category
                             /\ resultados'[1].explicacao = x.Explanation
                             /\ resultados'[1].rouge = rouge_score
                             /\ resultados'[1].iteracao = i
              /\ pc' = "php_hint" =>
                     /\ i < ceiling
                     /\ Score(loc.categoria_anterior, loc'.categoria_anterior) < limite
                     /\ loc'.i = i
      ]_vars

\* C25: in Progressive Hint the hint of round i names the category
\* extracted from the response of round i - 1 (the initial response for
\* i = 1), and every hint prompt is that one hint prepended to the unchanged
\* original prompt: the category kept for the next hint is the one the
\* round just scored below the threshold against the previous one, and a
\* hint prompt holds no hint of an earlier round.
C25_HintNamesPrevious ==
    [][ tech = "php" =>
          /\ (pc = "start" /\ pc' = "php_hint") =>
                 /\ loc'.i = 0
                 /\ loc'.categoria_anterior \in AnswerCategories
          /\ (pc = "php_hint" /\ calls' # calls) =>
                 /\ sent'.parts = <<Part("hint", loc.categoria_anterior),
                                    BasePrompt, OutputFormat>>
                 /\ pc' = "php_hint" =>
                        /\ loc'.categoria_anterior \in AnswerCategories
                        /\ Score(loc.categoria_anterior, loc'.categoria_anterior) < limite
      ]_vars

\* A later round is about to send a hint that names another category than
\* the hint of the round before it did.
C25_Witness ==
    /\ tech = "php"
    /\ pc = "php_hint"
    /\ loc.i >= 1
    /\ Len(sent.parts) = 3
    /\ sent.parts[1].p = "hint"
    /\ sent.parts[1].arg # loc.categoria_anterior

(***************************************************************************)
(* Self Hint: the refinement loop                                          *)
(***************************************************************************)
\* C26: in Self Hint, iteration i emits and returns if and only if
\* i = max_iter or score(previous category, new category) >= threshold;
\* every non-terminal iteration makes exactly two model calls (the
\* reflection call, then one replanning call whose prompt carries the new
\* category and whose response is the plan used by the next reflection), so
\* a run that emits at iteration k has made exactly 2k + 1 model calls.
C26_IterationStops ==
    [][ tech = "shp" =>
          /\ (pc = "shp_reflect" /\ pc' # pc) =>
                 LET i == loc.i + 1
                 IN  /\ calls' = calls + 1
                     /\ sent'.parts[2] = Part("plano_intermediario", loc.plano_intermediario)
                     /\ pc' \in {"returned", "shp_replan"}
                     /\ pc' = "returned" =>
                            /\ calls' = 2 * i + 1
                            /\ \E x \in AnswerExtractions :
                                LET rouge_score == Score(loc.categoria_anterior, x.Category)
                                IN  /\ i = ceiling \/ rouge_score >= limite
                                    /\ Len(resultados') = 1
                                    /\ resultados'[1].categoria = x.Category
                                    /\ resultados'[1].explicacao = x.Explanation
                                    /\ resultados'[1].rouge = rouge_score
                                    /\ resultados'[1].iteracao = i
                     /\ pc' = "shp_replan" =>
                            /\ i < ceiling
                            /\ loc'.categoria_anterior \in AnswerCategories
                            /\ Score(loc.categoria_anterior, loc'.categoria_anterior) < limite
          /\ (pc = "shp_replan" /\ pc' # pc) =>
                 /\ calls' = calls + 1
                 /\ pc' = "shp_reflect"
                 /\ sent'.parts = <<BasePrompt, Plano, Part("categoria", loc.categoria_anterior)>>
                 /\ loc'.i = loc.i + 1
                 /\ loc'.categoria_anterior = loc.categoria_anterior
                 /\ loc'.plano_intermediario \in Unparsed \cup {BackendError}
      ]_vars

\* C27: the second Self Hint call, whose response yields the initial
\* category, sends the base prompt together with the plan that the first
\* call generated and the output-format instructions.
C27_SecondCallCarriesPlan ==
    [][ (tech = "shp" /\ pc = "shp_exec" /\ pc' # pc) =>
          /\ calls' = 2
          /\ sent'.parts = <<BasePrompt,
                             Part("plano_intermediario", loc.plano_intermediario),
                             OutputFormat>>
      ]_vars

(***************************************************************************)
(* Hypothesis Testing: the scan                                            *)
(***************************************************************************)
\* C28: Hypothesis Testing tests categories in the order CAT1, CAT2, ...,
\* CAT12 with exactly one model call per tested category: the k-th call
\* tests CAT<k>, it is made only if k <= min(12, max_iter) and no earlier
\* category was confirmed, a confirmation of CAT<k> rests on that call's
\* response scored against CAT<k>, the scan goes on only while a category is
\* left, and after a confirmation no further category is tested.
C28_ScanInOrder ==
    [][ tech = "htp" =>
          /\ calls' # calls =>
                 LET k == calls + 1
                 IN  /\ calls' = k
                     /\ pc \in {"start", "htp_test"}
                     /\ k <= Len(categories) /\ k <= ceiling
                     /\ sent'.parts[2] = Part("category", <<categories[k]>>)
                     /\ pc' = "htp_test" => (k < Len(categories) /\ k < ceiling)
                     /\ pc' = "returned" =>
                            /\ Len(resultados') = 1
                            /\ \/ /\ resultados'[1].categoria_testada = <<categories[k]>>
                                  /\ resultados'[1].categoria \in AnswerCategories
                                  /\ resultados'[1].rouge
                                         = Score(resultados'[1].categoria, <<categories[k]>>)
                                  /\ resultados'[1].rouge >= limite
                                  /\ resultados'[1].iteracao = k
                               \/ /\ resultados'[1].categoria_testada = <<"ALL">>
                                  /\ (k = Len(categories) \/ k = ceiling)
          /\ pc = "returned" => UNCHANGED <<calls, sent, resultados>>
      ]_vars

\* A later category was confirmed after an earlier one was tested and not
\* confirmed.
C28_Witness ==
    /\ tech = "htp"
    /\ pc = "returned"
    /\ calls >= 2
    /\ Len(resultados) = 1
    /\ resultados[1].categoria_testada = <<categories[calls]>>
    /\ limite > 0

(***************************************************************************)
(* The model adapters (plugins/models): the wait before a request          *)
(*                                                                         *)
(* Delays are in tenths of a second.                                       *)
(***************************************************************************)
MaxDelay == 2

LocalDefaultDelay == 5

Adapters == {"APIModel", "LocalModel", "HuggingfaceModel"}

Delays == 0..MaxDelay \cup {LocalDefaultDelay}

\* The keyword arguments of a send_prompt call: with or without rate_limit.
CallKwargs ==
    {[mode |-> "php"]} \cup { [mode |-> "php", rate_limit |-> d] : d \in Delays }

\* An argument of _apply_rate_limit: a number, or None.
Some(v) == [none |-> FALSE, v |-> v]

NoneGiven == [none |-> TRUE, v |-> 0]

\* The seconds _apply_rate_limit sleeps: delay = override if override is not
\* None else self.rate_limit; if delay and delay > 0: time.sleep(delay).
apply_rate_limit(override) ==
    LET delay == IF ~override.none THEN override.v ELSE rate_limit
    IN  IF delay > 0 THEN <<[e |-> "sleep", d |-> delay]>> ELSE <<>>

\* What each adapter hands to _apply_rate_limit.
RateLimitArgument(a, kwargs) ==
    IF a = "APIModel" THEN KwGet(kwargs, "rate_limit", NoneGiven)
    ELSE IF a = "LocalModel" THEN KwGet(kwargs, "rate_limit", Some(LocalDefaultDelay))
    ELSE KwGet(kwargs, "rate_limit", Some(0))

Given(kwargs) ==
    IF "rate_limit" \in DOMAIN kwargs
    THEN [mode |-> kwargs.mode, rate_limit |-> Some(kwargs.rate_limit)]
    ELSE kwargs

InitModels ==
    /\ adapter \in Adapters
    /\ rate_limit \in Delays
    /\ call_kwargs = [mode |-> "none"]
    /\ events = <<>>
    /\ mpc = "idle"
    /\ IdleExtract
    /\ IdleTech
    /\ IdleRunner
    /\ IdleFun
    /\ IdleCli
    /\ IdlePlug
    /\ IdleMet

\* send_prompt(prompt, **kwargs) is entered.
SendPrompt ==
    /\ mpc = "idle"
    /\ call_kwargs' \in CallKwargs
    /\ events' = <<>>
    /\ mpc' = "limit"
    /\ UNCHANGED <<adapter, rate_limit>>

\* self._apply_rate_limit(kwargs.get("rate_limit" ...))
ApplyRateLimit ==
    /\ mpc = "limit"
    /\ events' = events \o apply_rate_limit(RateLimitArgument(adapter, Given(call_kwargs)))
    /\ mpc' = "request"
    /\ UNCHANGED <<adapter, rate_limit, call_kwargs>>

\* litellm.completion(...) / self.model.generate(...), and the return
Request ==
    /\ mpc = "request"
    /\ events' = Append(events, [e |-> "request", d |-> 0])
    /\ mpc' = "idle"
    /\ UNCHANGED <<adapter, rate_limit, call_kwargs>>

NextModels ==
    \/ (SendPrompt /\ UNCHANGED <<extractVars, techVars, runnerVars, funVars, cliVars, plugVars, metVars>>)
    \/ (ApplyRateLimit /\ UNCHANGED <<extractVars, techVars, runnerVars, funVars, cliVars, plugVars, metVars>>)
    \/ (Request /\ UNCHANGED <<extractVars, techVars, runnerVars, funVars, cliVars, plugVars, metVars>>)

SpecModels == InitModels /\ [][NextModels]_vars

\* The time a call has waited so far.
Waited == IF events # <<>> /\ events[1].e = "sleep" THEN events[1].d ELSE 0

\* C29: before each backend request a model adapter waits for the per-call
\* rate_limit option when the caller gives one and otherwise for the
\* adapter's configured rate_limit; this holds for the API, local and
\* on-device adapters, and the wait precedes the request.
C29_RateLimitHonoured ==
    (\E n \in 1..Len(events) : events[n].e = "request") =>
        /\ Waited = IF "rate_limit" \in DOMAIN call_kwargs
                    THEN call_kwargs.rate_limit
                    ELSE rate_limit
        /\ \A n \in 1..Len(events) : events[n].e = "sleep" => n = 1

\* The category, stripped and upper-cased, is a key of the keyword table.
HasEntry(categoria) ==
    /\ Len(Strip(categoria)) = 1
    /\ Upper(Strip(categoria)[1]) \in DOMAIN palavras_chave

\* C30: if the category extracted from Progressive Rectification's initial
\* response has no entry in the keyword table, then for every max_iter no
\* masking, validation or rectification call is issued: exactly one model
\* call is made and the single record carries the initial category and
\* explanation with quality 0.0 and iteration max_iter.
C30_NoKeywordsNoLoop ==
    [][ (tech = "prp" /\ pc = "start" /\ pc' # pc) =>
          /\ calls' = 1
          /\ pc' \in {"prp_mask", "returned", "raised"}
          /\ pc' = "prp_mask" => HasEntry(loc'.categoria_atual)
          /\ pc' = "returned" =>
                 /\ Len(resultados') = 1
                 /\ resultados'[1].qualidade = 0
                 /\ resultados'[1].iteracao = ceiling
                 /\ \E x \in AnswerExtractions :
                        /\ resultados'[1].categoria = x.Category
                        /\ resultados'[1].explicacao = x.Explanation
      ]_vars

\* The one call was answered with a category the table does not list, and
\* the record was returned at once although attempts were allowed.
C30_Witness ==
    /\ tech = "prp"
    /\ pc = "returned"
    /\ calls = 1
    /\ ceiling >= 1
    /\ Len(resultados) = 1
    /\ ~HasEntry(resultados[1].categoria)
    /\ resultados[1].iteracao = ceiling

====
